---- MODULE Spec2Model ----
(***************************************************************************)
(* A model of apistrap: the decorators attached to a view handler, the     *)
(* operation wrapper built from them (OperationWrapper.process_metadata),  *)
(* the per-request wrapper of the Flask adapter (request body loading,     *)
(* the handler call, response post-processing) and the component          *)
(* definition registry of the extension.                                   *)
(***************************************************************************)
EXTENDS Integers, Sequences, FiniteSets, TLC

VARIABLES
    function,       \* the view handler: its signature and documented raises
    decorators,     \* the handler's __apistrap_decorators list
    operations,     \* FlaskApistrap._operations: NoneVal, or the list of built wrappers
    build_error,    \* the exception process_metadata raised, NoError if none
    pc,             \* position of the current request inside the decorated function
    request,        \* what the wrapper has read of the current request
    kwargs,         \* keyword arguments the wrapper has collected for the handler
    handler_calls,  \* how many times the wrapped handler ran for the current request
    result,         \* the value the wrapped handler returned
    outcome,        \* what the decorated function returned or raised
    components,     \* spec.components: the schemas and the responses sections
    definitions,    \* the legacy Swagger extension's config["definitions"]
    registry_call,  \* the last add_*_definition call: method, name and schema
    registry_error, \* the exception that call raised, NoError if none
    error_handlers, \* Apistrap._error_handlers: the custom error handlers
    use_default_error_handlers, \* Apistrap._use_default_error_handlers
    app,            \* FlaskApistrap._app: whether bound, and the app's debug flag
    config,         \* _spec_url, _ui_url and _redoc_url
    config_call,    \* the last configuration call: method and value
    config_error,   \* the exception that call raised, NoError if none
    security_schemes,        \* Apistrap.security_schemes
    default_security_scheme, \* Apistrap.default_security_scheme
    security_enforcers,      \* the schemes FlaskApistrap.security_enforcers has a key for
    scheme_call,    \* the last add_security_scheme call: scheme and default
    scheme_error,   \* the exception that call raised, NoError if none
    credentials,    \* the scopes the caller of the current request holds, per scheme
    args,           \* request.args as far as the wrapper has read it
    boundary,       \* what Flask gives the caller of a request that raised
    rules,          \* app.url_map.iter_rules(): the URL rules of the application
    view_functions, \* app.view_functions: per endpoint, how many wrappers lie around the handler
    paths,          \* spec._paths: the operations apispec has been given, per URL and method
    served,         \* the documents the specification endpoint has returned so far
    suspended,      \* the request context of the worker thread that is not running
    conversion      \* the calls of schematics_model_to_schema_object in progress

vars == <<function, decorators, operations, build_error, pc, request, kwargs,
          handler_calls, result, outcome, components, definitions, registry_call,
          registry_error, error_handlers, use_default_error_handlers, app, config,
          config_call, config_error, security_schemes, default_security_scheme,
          security_enforcers, scheme_call, scheme_error, credentials, args, boundary,
          rules, view_functions, paths, served, suspended, conversion>>

opVars == <<function, decorators, operations, build_error>>
reqVars == <<pc, request, kwargs, handler_calls, result, outcome>>
regVars == <<components, definitions, registry_call, registry_error>>
cfgVars == <<error_handlers, use_default_error_handlers, app, config, config_call, config_error>>
secVars == <<security_schemes, default_security_scheme, security_enforcers, scheme_call,
             scheme_error>>
edgeVars == <<credentials, args, boundary>>
appVars == <<rules, view_functions, paths, served, suspended, conversion>>

(***************************************************************************)
(* Bounds of the model.                                                    *)
(***************************************************************************)
MaxDecorators == 2
MaxParams == 2

(***************************************************************************)
(* Python values.                                                          *)
(***************************************************************************)
NoneVal == "None"
\* inspect.Parameter.empty / inspect.Signature.empty: no annotation written
EmptyAnnotation == "empty"
\* `code = None`: the handler returned no status code
NoCode == -1
NoError == "no error"

\* schematics Model subclasses known to the application
ModelClasses == {"OkResponse", "ErrorResponse", "WeirdResponse", "Request", "OtherRequest"}

(***************************************************************************)
(* Exception classes and issubclass.                                       *)
(***************************************************************************)
ExceptionClasses ==
    {"Exception", "ApiClientError", "UnsupportedMediaTypeError", "InvalidFieldsError",
     "ApiServerError", "UnexpectedResponseError", "InvalidResponseError",
     "HTTPException", "NotFound", "KeyError", "TypeError", "ValueError",
     "RuntimeError", "ForbiddenRequestError"}

ExceptionBase ==
    [c \in ExceptionClasses |->
        CASE c = "UnsupportedMediaTypeError" -> "ApiClientError"
          [] c = "InvalidFieldsError" -> "ApiClientError"
          [] c = "UnexpectedResponseError" -> "ApiServerError"
          [] c = "InvalidResponseError" -> "ApiServerError"
          [] c = "NotFound" -> "HTTPException"
          [] OTHER -> "Exception"]

RECURSIVE issubclass(_, _)
issubclass(cls, base) ==
    IF cls = base THEN TRUE
    ELSE IF cls = "Exception" THEN FALSE
    ELSE issubclass(ExceptionBase[cls], base)

(***************************************************************************)
(* The error handler table (extension.py) with the Flask defaults.         *)
(***************************************************************************)
\* http_code of a handler whose code is a function of the exception class
CodeOfClass == 0

\* werkzeug: the `code` attribute of an HTTP exception class
HttpExceptionCode(exception_class) ==
    IF exception_class = "NotFound" THEN 404 ELSE NoCode

\* a variant without the catch-all entry
default_error_handlers_without_catch_all ==
    << [exception_class |-> "HTTPException", http_code |-> CodeOfClass, handler |-> "http_error_handler"],
       [exception_class |-> "UnsupportedMediaTypeError", http_code |-> 415, handler |-> "error_handler"],
       [exception_class |-> "ApiClientError", http_code |-> 400, handler |-> "error_handler"],
       [exception_class |-> "ApiServerError", http_code |-> 500, handler |-> "internal_error_handler"] >>

default_error_handlers ==
    << [exception_class |-> "HTTPException", http_code |-> CodeOfClass, handler |-> "http_error_handler"],
       [exception_class |-> "UnsupportedMediaTypeError", http_code |-> 415, handler |-> "error_handler"],
       [exception_class |-> "ApiClientError", http_code |-> 400, handler |-> "error_handler"],
       [exception_class |-> "ApiServerError", http_code |-> 500, handler |-> "internal_error_handler"],
       [exception_class |-> "Exception", http_code |-> 500, handler |-> "internal_error_handler"] >>

\* a variant that answers 500 where the code is a function of the class
get_code_constant(handler, exception_type) ==
    IF handler.http_code = CodeOfClass THEN 500 ELSE handler.http_code

get_code(handler, exception_type) ==
    IF handler.http_code = CodeOfClass
    THEN HttpExceptionCode(exception_type)
    ELSE handler.http_code

\* `return None` of _exception_handler: no entry matched
NoHandler == [exception_class |-> NoneVal, http_code |-> NoCode, handler |-> NoneVal]

RECURSIVE FirstMatch(_, _)
FirstMatch(handlers, exception_class) ==
    IF handlers = << >> THEN NoHandler
    ELSE IF issubclass(exception_class, Head(handlers).exception_class)
         THEN Head(handlers)
         ELSE FirstMatch(Tail(handlers), exception_class)

\* a variant that looks at the default entries before the custom ones
exception_handler_defaults_first(exception_class) ==
    IF use_default_error_handlers
    THEN FirstMatch(default_error_handlers \o error_handlers, exception_class)
    ELSE FirstMatch(error_handlers, exception_class)

exception_handler(exception_class) ==
    IF use_default_error_handlers
    THEN FirstMatch(error_handlers \o default_error_handlers, exception_class)
    ELSE FirstMatch(error_handlers, exception_class)

exception_to_http_code(exception_class) ==
    LET handler == exception_handler(exception_class)
    IN  IF handler = NoHandler THEN 500 ELSE get_code(handler, exception_class)

(***************************************************************************)
(* View handlers: the signature and the docblock of the decorated function.*)
(***************************************************************************)
ParamNames == <<"a", "b", "c", "d">>
ParamAnnotations == {"str", "Request", "OtherRequest", NoneVal}

AnnotationLists == UNION {[1..n -> ParamAnnotations] : n \in 0..MaxParams}

\* inspect.Parameter.empty as a parameter's default: the parameter has none
NoDefault == [type |-> "empty", repr |-> "empty"]

Signature(annotations) ==
    [i \in 1..Len(annotations) |->
        [name |-> ParamNames[i], annotation |-> annotations[i], default |-> NoDefault]]

ReturnAnnotations == {EmptyAnnotation, "OkResponse", "str"}
\* `:raises X:` entries of the docblock
RaisesDocs == {<< >>, <<"ApiClientError">>, <<"HTTPException">>, <<"KeyError", "ValueError">>}

Functions ==
    {[params |-> Signature(a), return_annotation |-> EmptyAnnotation, raises |-> << >>] :
        a \in AnnotationLists}
    \cup
    {[params |-> << >>, return_annotation |-> r, raises |-> x] :
        r \in ReturnAnnotations, x \in RaisesDocs}

(***************************************************************************)
(* Decorator factories of the extension.                                   *)
(***************************************************************************)
JSON == "application/json"
FORM == "application/x-www-form-urlencoded"
MULTIPART == "multipart/form-data"
TEXT == "text/plain"
OCTET == "application/octet-stream"

responds_with(response_class, code) ==
    [kind |-> "RespondsWithDecorator", response_class |-> response_class, code |-> code,
     description |-> NoneVal, mimetype |-> NoneVal]

accepts(request_class, mimetypes) ==
    [kind |-> "AcceptsDecorator", request_class |-> request_class, mimetypes |-> mimetypes]

accepts_file(mime_type) ==
    [kind |-> "AcceptsFileDecorator", mime_type |-> mime_type]

security(scopes, scheme) ==
    [kind |-> "SecurityDecorator", scopes |-> scopes, security_scheme |-> scheme]

accepts_qs(parameter_names) ==
    [kind |-> "AcceptsQueryStringDecorator", parameter_names |-> parameter_names]

tags(names) == [kind |-> "TagsDecorator", tags |-> names]

ignore_params(ignored_params) ==
    [kind |-> "IgnoreParamsDecorator", ignored_params |-> ignored_params]

\* the decorators the modelled application may attach to its handler
Decorators ==
    {responds_with("OkResponse", 200), responds_with("OkResponse", 400),
     responds_with("ErrorResponse", 400),
     accepts("Request", <<JSON>>), accepts("Request", <<FORM>>), accepts("OtherRequest", <<JSON>>),
     accepts_file(OCTET)}

find_decorators(decs, decorator_class) ==
    SelectSeq(decs, LAMBDA d : d.kind = decorator_class)

(***************************************************************************)
(* utils.resolve_fw_decl                                                   *)
(***************************************************************************)
Ok(value) == [error |-> NoError, value |-> value]
Raise(error) == [error |-> error, value |-> NoneVal]

NoneAnnotationError == "ValueError: NoneType parameter annotations are not supported"

resolve_fw_decl(annotation) ==
    IF annotation = NoneVal THEN Raise(NoneAnnotationError) ELSE Ok(annotation)

(***************************************************************************)
(* OperationWrapper._get_responses and its three sources.  The response    *)
(* table is kept as the list of its (class, code, data) entries in         *)
(* insertion order.                                                        *)
(***************************************************************************)
ResponseData(description, mimetype) == [description |-> description, mimetype |-> mimetype]

ResponseEntry(response_class, code, data) ==
    [response_class |-> response_class, code |-> code, data |-> data]

UnsupportedReturnTypeError == "TypeError: Unsupported return type"
DuplicateResponseError == "TypeError: Multiple responses declared with the same schema and code"

get_response_from_annotation(f) ==
    IF f.return_annotation = EmptyAnnotation THEN Ok(<< >>)
    ELSE IF f.return_annotation \notin ModelClasses THEN Raise(UnsupportedReturnTypeError)
    ELSE Ok(<<ResponseEntry(f.return_annotation, 200, ResponseData(NoneVal, NoneVal))>>)

get_responses_from_decorators(decs) ==
    LET found == find_decorators(decs, "RespondsWithDecorator")
    IN  [i \in 1..Len(found) |->
            ResponseEntry(found[i].response_class, found[i].code,
                          ResponseData(found[i].description, found[i].mimetype))]

RECURSIVE get_responses_from_raises(_)
get_responses_from_raises(raises) ==
    IF raises = << >> THEN << >>
    ELSE LET code == exception_to_http_code(Head(raises))
         IN  IF code = NoCode
             THEN get_responses_from_raises(Tail(raises))
             ELSE <<ResponseEntry("ErrorResponse", code, ResponseData(Head(raises), NoneVal))>>
                  \o get_responses_from_raises(Tail(raises))

\* self._responses.keys() and self._responses[cls].keys()
ResponseClasses(responses) == {responses[i].response_class : i \in DOMAIN responses}
ResponseCodes(responses, cls) ==
    {responses[i].code : i \in {j \in DOMAIN responses : responses[j].response_class = cls}}

\* a variant that stores every entry without looking for an earlier one
collect_responses_unchecked(items, collected) == Ok(collected \o items)

RECURSIVE collect_responses(_, _)
collect_responses(items, collected) ==
    IF items = << >> THEN Ok(collected)
    ELSE IF Head(items).code \in ResponseCodes(collected, Head(items).response_class)
         THEN Raise(DuplicateResponseError)
         ELSE collect_responses(Tail(items), Append(collected, Head(items)))

get_responses(f, decs) ==
    LET annotated == get_response_from_annotation(f)
    IN  IF annotated.error # NoError THEN annotated
        ELSE collect_responses(annotated.value \o get_responses_from_decorators(decs)
                                   \o get_responses_from_raises(f.raises),
                               << >>)

(***************************************************************************)
(* OperationWrapper._get_request_body_parameter                            *)
(***************************************************************************)
MultipleAcceptsError == "TypeError: Multiple @accepts decorators"
MultipleCandidatesError == "TypeError: Multiple candidates for request body injection"
MultipleParametersError == "TypeError: Multiple parameters of the type specified by @accepts"
NoBodyParameterError == "TypeError: No parameter for request body injection"

\* `accepts_decorator = None`
NoDecorator == [kind |-> NoneVal]

\* a variant in which a later candidate silently replaces an earlier one
scan_parameters_last_wins(params, accepts_decorator, i, body_param) ==
    LET candidates ==
            {j \in i..Len(params) :
                IF accepts_decorator # NoDecorator
                THEN accepts_decorator.request_class = params[j].annotation
                ELSE params[j].annotation \in ModelClasses}
    IN  IF candidates = {} THEN Ok(body_param)
        ELSE Ok(CHOOSE j \in candidates : \A k \in candidates : k <= j)

\* the loop over the signature's parameters, from the i-th on; body_param is
\* the index of the parameter chosen so far, 0 for None
RECURSIVE scan_parameters(_, _, _, _)
scan_parameters(params, accepts_decorator, i, body_param) ==
    IF i > Len(params) THEN Ok(body_param)
    ELSE LET annotation == resolve_fw_decl(params[i].annotation)
         IN  IF annotation.error # NoError THEN annotation
             ELSE LET matches_decorator ==
                          /\ accepts_decorator # NoDecorator
                          /\ accepts_decorator.request_class = annotation.value
                      is_model ==
                          /\ accepts_decorator = NoDecorator
                          /\ annotation.value \in ModelClasses
                  IN  IF matches_decorator \/ is_model
                      THEN IF body_param # 0
                           THEN IF accepts_decorator = NoDecorator
                                THEN Raise(MultipleCandidatesError)
                                ELSE Raise(MultipleParametersError)
                           ELSE scan_parameters(params, accepts_decorator, i + 1, i)
                      ELSE scan_parameters(params, accepts_decorator, i + 1, body_param)

NoBody == [parameter |-> NoneVal, class |-> NoneVal, content_types |-> << >>]

get_request_body_parameter(f, decs) ==
    LET found == find_decorators(decs, "AcceptsDecorator")
    IN  IF Len(found) > 1 THEN Raise(MultipleAcceptsError)
        ELSE LET accepts_decorator == IF found = << >> THEN NoDecorator ELSE found[1]
                 body_param == scan_parameters(f.params, accepts_decorator, 1, 0)
             IN  IF body_param.error # NoError THEN body_param
                 ELSE IF body_param.value = 0
                      THEN IF accepts_decorator # NoDecorator
                           THEN Raise(NoBodyParameterError)
                           ELSE Ok(NoBody)
                      ELSE Ok([parameter |-> f.params[body_param.value].name,
                               class |-> f.params[body_param.value].annotation,
                               content_types |-> IF accepts_decorator # NoDecorator
                                                 THEN accepts_decorator.mimetypes
                                                 ELSE << >>])

(***************************************************************************)
(* OperationWrapper._get_request_body_file_type                            *)
(***************************************************************************)
MultipleFileTypesError == "TypeError: An endpoint cannot accept files of multiple types"

get_request_body_file_type(decs) ==
    LET found == find_decorators(decs, "AcceptsFileDecorator")
    IN  IF Len(found) > 1 THEN Raise(MultipleFileTypesError)
        ELSE IF found = << >> THEN Ok(NoneVal)
        ELSE Ok(found[1].mime_type)

(***************************************************************************)
(* OperationWrapper.process_metadata: the wrapper built for a handler, or  *)
(* the exception the constructor raises.                                   *)
(***************************************************************************)
FileAndModelError == "TypeError: An endpoint cannot accept both a file and a model"

\* `self._request_body_parameter is not None and self._request_body_file_type is not None`
accepts_file_and_model_never(parameter, file_type) == FALSE
accepts_file_and_model(parameter, file_type) == parameter # NoneVal /\ file_type # NoneVal

(***************************************************************************)
(* OperationWrapper._get_query_string_parameters: the dict of the declared *)
(* query parameters, kept as the list of its (name, type) items.           *)
(***************************************************************************)
UnknownParameterError == "TypeError: Unknown parameter"
UnsupportedQueryTypeError == "TypeError: Only string and integer query parameters are supported"

\* the parameter names of all accepts_qs decorators, in order
RECURSIVE declared_query_names(_)
declared_query_names(found) ==
    IF found = << >> THEN << >>
    ELSE Head(found).parameter_names \o declared_query_names(Tail(found))

ParamIndex(f, name) == CHOOSE i \in DOMAIN f.params : f.params[i].name = name

RECURSIVE collect_query_parameters(_, _, _)
collect_query_parameters(f, names, collected) ==
    IF names = << >> THEN Ok(collected)
    ELSE IF \A i \in DOMAIN f.params : f.params[i].name # Head(names)
         THEN Raise(UnknownParameterError)
    ELSE LET annotation == resolve_fw_decl(f.params[ParamIndex(f, Head(names))].annotation)
         IN  IF annotation.error # NoError THEN annotation
             ELSE IF annotation.value \notin {"str", "int"} THEN Raise(UnsupportedQueryTypeError)
             ELSE collect_query_parameters(f, Tail(names),
                      IF \E i \in DOMAIN collected : collected[i].name = Head(names)
                      THEN collected
                      ELSE Append(collected, [name |-> Head(names), type |-> annotation.value]))

get_query_string_parameters(f, decs) ==
    collect_query_parameters(
        f, declared_query_names(find_decorators(decs, "AcceptsQueryStringDecorator")), << >>)

(***************************************************************************)
(* OperationWrapper._get_security_requirements                             *)
(***************************************************************************)
NoSchemeError == "TypeError: No security scheme found"

\* a variant that ignores the default scheme
resolve_security_scheme_ignoring_default(decorator) ==
    IF decorator.security_scheme # NoneVal THEN decorator.security_scheme
    ELSE IF Len(security_schemes) = 1 THEN security_schemes[1]
    ELSE NoneVal

\* the scheme of one security decorator, NoneVal when there is none
resolve_security_scheme(decorator) ==
    IF decorator.security_scheme # NoneVal THEN decorator.security_scheme
    ELSE IF default_security_scheme # NoneVal THEN default_security_scheme
    ELSE IF Len(security_schemes) = 1 THEN security_schemes[1]
    ELSE NoneVal

RECURSIVE collect_security_requirements(_, _)
collect_security_requirements(found, collected) ==
    IF found = << >> THEN Ok(collected)
    ELSE LET scheme == resolve_security_scheme(Head(found))
         IN  IF scheme = NoneVal THEN Raise(NoSchemeError)
             ELSE collect_security_requirements(
                      Tail(found),
                      Append(collected, [scheme |-> scheme, scopes |-> Head(found).scopes]))

get_security_requirements(decs) ==
    collect_security_requirements(find_decorators(decs, "SecurityDecorator"), << >>)

(***************************************************************************)
(* OperationWrapper._get_tags: the tags of all tags decorators, as strings *)
(***************************************************************************)
\* a variant that looks at the first tags decorator only
get_tags_of_first_decorator(decs) ==
    IF find_decorators(decs, "TagsDecorator") = << >> THEN << >>
    ELSE Head(find_decorators(decs, "TagsDecorator")).tags

RECURSIVE collect_tags(_)
collect_tags(found) ==
    IF found = << >> THEN << >>
    ELSE Head(found).tags \o collect_tags(Tail(found))

get_tags(decs) == collect_tags(find_decorators(decs, "TagsDecorator"))

process_metadata(f, decs) ==
    LET responses == get_responses(f, decs)
        body == get_request_body_parameter(f, decs)
        file_type == get_request_body_file_type(decs)
        query == get_query_string_parameters(f, decs)
        required == get_security_requirements(decs)
    IN  IF responses.error # NoError THEN responses
        ELSE IF body.error # NoError THEN body
        ELSE IF file_type.error # NoError THEN file_type
        ELSE IF accepts_file_and_model(body.value.parameter, file_type.value)
             THEN Raise(FileAndModelError)
        ELSE IF query.error # NoError THEN query
        ELSE IF required.error # NoError THEN required
        ELSE Ok([responses |-> responses.value,
                 request_body_parameter |-> body.value.parameter,
                 request_body_class |-> body.value.class,
                 request_body_content_types |->
                     IF body.value.content_types = << >>
                     THEN <<JSON>>
                     ELSE body.value.content_types,
                 request_body_file_type |-> file_type.value,
                 query_parameters |-> query.value,
                 security |-> required.value,
                 tags |-> get_tags(decs)])

(***************************************************************************)
(* Values carried by requests and models, tagged with their Python type.   *)
(***************************************************************************)
IntValue(repr) == [type |-> "int", repr |-> repr]
StrValue(repr) == [type |-> "str", repr |-> repr]
PyNone == [type |-> "NoneType", repr |-> "None"]

\* the strings int() parses
IntLiterals == {"42"}

(***************************************************************************)
(* The schematics models of the application and what the library does     *)
(* with them: conversion and validation of a primitive (Model.__init__     *)
(* with validate=True, partial=False, strict=True) and Model.validate.     *)
(***************************************************************************)
Field(name, type, required) == [name |-> name, type |-> type, required |-> required]

ModelFields(cls) ==
    CASE cls = "Request" ->
            {Field("string_field", "StringType", TRUE), Field("int_field", "IntType", TRUE)}
      [] cls = "OtherRequest" -> {Field("int_field", "IntType", FALSE)}
      [] cls = "OkResponse" -> {Field("string_field", "StringType", TRUE)}
      [] cls = "WeirdResponse" -> {Field("string_field", "StringType", TRUE)}
      [] cls = "ErrorResponse" -> {Field("message", "StringType", TRUE)}
      [] OTHER -> {}

FieldNames(cls) == {f.name : f \in ModelFields(cls)}
FieldOf(cls, name) == CHOOSE f \in ModelFields(cls) : f.name = name

ConversionFailed == [type |-> "ConversionError", repr |-> "ConversionError"]

to_native(field_type, value) ==
    IF field_type = "IntType"
    THEN IF value.type = "int" THEN value
         ELSE IF value.type = "str" /\ value.repr \in IntLiterals THEN IntValue(value.repr)
         ELSE ConversionFailed
    ELSE IF value.type = "str" THEN value
         ELSE IF value.type = "int" THEN StrValue(value.repr)
         ELSE ConversionFailed

RogueField == "Rogue field"
RequiredField == "This field is required."
NotConvertible == "Value could not be converted."

\* a variant of import_errors without strict=True: unknown keys are ignored
import_errors_not_strict(cls, raw) ==
    LET missing == {n \in FieldNames(cls) \ DOMAIN raw : FieldOf(cls, n).required}
        invalid == {n \in FieldNames(cls) \cap DOMAIN raw :
                        to_native(FieldOf(cls, n).type, raw[n]) = ConversionFailed}
    IN  [n \in missing \cup invalid |->
            IF n \in missing THEN RequiredField ELSE NotConvertible]

\* DataError.errors of converting and validating primitive `raw` as a `cls`
import_errors(cls, raw) ==
    LET rogue == DOMAIN raw \ FieldNames(cls)
        missing == {n \in FieldNames(cls) \ DOMAIN raw : FieldOf(cls, n).required}
        invalid == {n \in FieldNames(cls) \cap DOMAIN raw :
                        to_native(FieldOf(cls, n).type, raw[n]) = ConversionFailed}
    IN  [n \in rogue \cup missing \cup invalid |->
            IF n \in rogue THEN RogueField
            ELSE IF n \in missing THEN RequiredField
            ELSE NotConvertible]

\* the instance a valid primitive is converted to
Instance(cls, raw) ==
    [class |-> cls,
     data |-> [n \in FieldNames(cls) |->
                  IF n \in DOMAIN raw THEN to_native(FieldOf(cls, n).type, raw[n]) ELSE PyNone]]

\* DataError.errors of instance.validate()
validate_errors(instance) ==
    [n \in {m \in FieldNames(instance.class) :
                FieldOf(instance.class, m).required /\ instance.data[m] = PyNone} |->
        RequiredField]

NoErrors == [n \in {} |-> RequiredField]

(***************************************************************************)
(* Exceptions raised while a request is processed (errors.py).             *)
(***************************************************************************)
Return(value) == [raised |-> FALSE, value |-> value]
Throw(exception) == [raised |-> TRUE, exception |-> exception]

ApiClientError(message) ==
    [class |-> "ApiClientError", message |-> message, errors |-> NoErrors]
UnsupportedMediaTypeError ==
    [class |-> "UnsupportedMediaTypeError", message |-> "", errors |-> NoErrors]
InvalidFieldsError(errors) ==
    [class |-> "InvalidFieldsError", message |-> "Invalid input", errors |-> errors]
UnexpectedResponseError(response_class, code) ==
    [class |-> "UnexpectedResponseError", message |-> response_class, errors |-> NoErrors,
     code |-> code]
InvalidResponseError(errors) ==
    [class |-> "InvalidResponseError", message |-> "Invalid input", errors |-> errors]

(***************************************************************************)
(* Requests as the Flask adapter sees them: the content type and the body, *)
(* which request.json parses or request.form decodes.                      *)
(***************************************************************************)
ContentTypes == {JSON, FORM, MULTIPART, TEXT}

BodyKeys == {"string_field", "int_field", "unexpected_field"}

KeyValues(key) ==
    CASE key = "string_field" -> {StrValue("foo")}
      [] key = "int_field" -> {IntValue("42"), StrValue("42"), StrValue("Hello")}
      [] OTHER -> {StrValue("Spanish inquisition")}

\* JSON objects (and form field sets) a client may send
ObjectBodies ==
    UNION {{b \in [keys -> UNION {KeyValues(k) : k \in BodyKeys}] :
                \A k \in keys : b[k] \in KeyValues(k)} : keys \in SUBSET BodyKeys}

NoFields == [k \in {} |-> PyNone]

Bodies ==
    {[kind |-> "object", fields |-> b] : b \in ObjectBodies}
    \cup {[kind |-> k, fields |-> NoFields] : k \in {"string", "null", "malformed"}}

\* form fields are strings; a form body is always a field set
Requests ==
    {r \in [content_type : ContentTypes, body : Bodies] :
        r.content_type \in {FORM, MULTIPART} =>
            /\ r.body.kind = "object"
            /\ \A k \in DOMAIN r.body.fields : r.body.fields[k].type = "str"}

NoRequest == [content_type |-> NoneVal, body |-> [kind |-> NoneVal, fields |-> NoFields]]

(***************************************************************************)
(* FlaskOperationWrapper._load_request_body_primitive                      *)
(***************************************************************************)
NotJsonObject == "The request body must be a JSON object"

load_request_body_primitive(req) ==
    IF req.content_type = JSON
    THEN IF req.body.kind # "object"
         THEN Throw(ApiClientError(NotJsonObject))
         ELSE Return(req.body.fields)
    ELSE IF req.content_type \in {FORM, MULTIPART}
         THEN Return(req.body.fields)
         ELSE Throw(UnsupportedMediaTypeError)

(***************************************************************************)
(* OperationWrapper.accepts_body and OperationWrapper._load_request_body   *)
(***************************************************************************)
accepts_body(op) == op.request_body_parameter # NoneVal

load_request_body(op, body_primitive) ==
    LET errors == import_errors(op.request_body_class, body_primitive)
    IN  IF errors # NoErrors
        THEN Throw(InvalidFieldsError(errors))
        ELSE Return([n \in {op.request_body_parameter} |->
                        Instance(op.request_body_class, body_primitive)])

NoKwargs == [n \in {} |-> [class |-> NoneVal, data |-> NoFields]]

(***************************************************************************)
(* Exceptions of other classes: raised by Python, by a security enforcer   *)
(* or by a view handler.                                                   *)
(***************************************************************************)
ExceptionOf(class, message) == [class |-> class, message |-> message, errors |-> NoErrors]

NoException == ExceptionOf(NoneVal, "")

(***************************************************************************)
(* Security schemes, their enforcers and FlaskOperationWrapper.            *)
(* _enforce_security with OperationWrapper._get_required_scopes.           *)
(***************************************************************************)
Schemes == {"oauth", "apikey"}
Scopes == {"read", "frobnicate"}

\* what the caller of a request holds: the scopes granted under each scheme
Credentials == [Schemes -> {{}, {"read"}}]
NoCredentials == [scheme \in {} |-> {}]

\* the enforcer registered with a scheme, as in the tests: it raises unless
\* the caller holds every required scope
enforcer(scheme, required_scopes, creds) ==
    IF required_scopes \subseteq creds[scheme]
    THEN Return(NoneVal)
    ELSE Throw(ExceptionOf("ForbiddenRequestError", scheme))

\* `self._extension.security_enforcers[security_scheme](required_scopes)`
call_enforcer(scheme, required_scopes, creds) ==
    IF scheme \notin security_enforcers
    THEN Throw(ExceptionOf("KeyError", scheme))
    ELSE enforcer(scheme, required_scopes, creds)

MultipleSchemesError ==
    ExceptionOf("TypeError", "Multiple security schemes are defined and no default is set")
NoSchemesError ==
    ExceptionOf("TypeError", "At least one security scheme must be defined")

\* a variant that goes on to the next declaration after an enforcer accepted
\* and lets the handler run only when the last one did
RECURSIVE enforce_security_all(_, _, _)
enforce_security_all(found, creds, error) ==
    IF found = << >>
    THEN IF error = NoException THEN Return(NoneVal) ELSE Throw(error)
    ELSE IF /\ Len(security_schemes) > 1
            /\ default_security_scheme = NoneVal
            /\ Head(found).security_scheme = NoneVal
         THEN Throw(MultipleSchemesError)
    ELSE IF Len(security_schemes) = 0 THEN Throw(NoSchemesError)
    ELSE LET scheme == IF Head(found).security_scheme # NoneVal
                       THEN Head(found).security_scheme
                       ELSE IF default_security_scheme # NoneVal
                            THEN default_security_scheme
                            ELSE security_schemes[1]
             called == call_enforcer(scheme, Head(found).scopes, creds)
         IN  enforce_security_all(Tail(found), creds,
                                  IF called.raised THEN called.exception ELSE NoException)

\* the loop of _enforce_security over the security decorators still to be
\* looked at; `error` is the exception of the last enforcer that raised
RECURSIVE enforce_security(_, _, _)
enforce_security(found, creds, error) ==
    IF found = << >>
    THEN IF error = NoException THEN Return(NoneVal) ELSE Throw(error)
    ELSE IF /\ Len(security_schemes) > 1
            /\ default_security_scheme = NoneVal
            /\ Head(found).security_scheme = NoneVal
         THEN Throw(MultipleSchemesError)
    ELSE IF Len(security_schemes) = 0 THEN Throw(NoSchemesError)
    ELSE LET scheme == IF Head(found).security_scheme # NoneVal
                       THEN Head(found).security_scheme
                       ELSE IF default_security_scheme # NoneVal
                            THEN default_security_scheme
                            ELSE security_schemes[1]
             called == call_enforcer(scheme, Head(found).scopes, creds)
         IN  IF ~called.raised THEN Return(NoneVal)
             ELSE enforce_security(Tail(found), creds, called.exception)

(***************************************************************************)
(* The query parameter loop of the decorated function.                     *)
(***************************************************************************)
QueryTexts == {"42", "abc"}
QueryNames == {"a", "b"}

\* request.args: the query parameters a client may send
QueryArgs == UNION {[names -> QueryTexts] : names \in SUBSET QueryNames}
NoArgs == [name \in {} |-> ""]

\* `param_type(request.args[name])` for str and int
convert(param_type, text) ==
    IF param_type = "str" THEN Return(StrValue(text))
    ELSE IF text \in IntLiterals THEN Return(IntValue(text))
    ELSE Throw(ExceptionOf("ValueError", "invalid literal for int()"))

MissingQueryParameter(name) == ApiClientError("Missing query parameter")

\* a variant that never complains about an absent parameter
query_parameter_missing_never(f, name) == FALSE

\* `self._signature.parameters[name].default == inspect.Parameter.empty`
query_parameter_missing(f, name) == f.params[ParamIndex(f, name)].default = NoDefault

RECURSIVE load_query_parameters(_, _, _, _)
load_query_parameters(f, items, query, collected) ==
    IF items = << >> THEN Return(collected)
    ELSE LET name == Head(items).name
         IN  IF name \in DOMAIN query
             THEN LET converted == convert(Head(items).type, query[name])
                  IN  IF converted.raised THEN converted
                      ELSE load_query_parameters(
                               f, Tail(items), query,
                               [n \in DOMAIN collected \cup {name} |->
                                   IF n = name THEN converted.value ELSE collected[n]])
             ELSE IF query_parameter_missing(f, name)
                  THEN Throw(MissingQueryParameter(name))
                  ELSE load_query_parameters(f, Tail(items), query, collected)

(***************************************************************************)
(* The query parameters in OperationWrapper.get_openapi_spec.              *)
(***************************************************************************)
PARAMETER_TYPE_MAP(param_type) == IF param_type = "int" THEN "integer" ELSE "string"

openapi_query_parameters(f, op) ==
    [i \in DOMAIN op.query_parameters |->
        [name |-> op.query_parameters[i].name,
         in |-> "query",
         required |-> f.params[ParamIndex(f, op.query_parameters[i].name)].default = NoDefault,
         schema |-> [type |-> PARAMETER_TYPE_MAP(op.query_parameters[i].type)]]]

(***************************************************************************)
(* What a view handler may return: a model instance or a raw flask         *)
(* Response, alone or in a tuple with a status code.                       *)
(***************************************************************************)
ResponseObject(cls, value) ==
    [class |-> cls, data |-> [n \in FieldNames(cls) |-> value]]

HandlerResponses ==
    {ResponseObject(cls, v) :
        cls \in {"OkResponse", "ErrorResponse", "WeirdResponse"},
        v \in {StrValue("Hello World"), PyNone}}
    \cup {ResponseObject("Response", PyNone)}

ReturnedCodes == {NoCode, 200, 400}

HandlerResults == [response : HandlerResponses, code : ReturnedCodes]

NoResult == [response |-> [class |-> NoneVal, data |-> NoFields], code |-> NoCode]

(***************************************************************************)
(* FlaskOperationWrapper.is_raw_response                                   *)
(***************************************************************************)
is_raw_response_never(response) == FALSE
is_raw_response(response) == response.class = "Response"

(***************************************************************************)
(* OperationWrapper._postprocess_response                                  *)
(***************************************************************************)
MissingStatusCode == [n \in {"status_code"} |-> "Missing status code"]

\* self._responses[cls][code]; the lookup follows the check that the code is
\* registered, where Python would raise KeyError the data is empty
ResponseDataOf(responses, cls, code) ==
    LET found == {j \in DOMAIN responses :
                     responses[j].response_class = cls /\ responses[j].code = code}
    IN  IF found = {} THEN ResponseData(NoneVal, NoneVal)
        ELSE responses[CHOOSE j \in found : TRUE].data

\* `type(response) not in self._responses.keys()` is false
type_declared(op, cls) == cls \in ResponseClasses(op.responses)

\* `len(self._responses[type(response)]) > 1`
status_code_ambiguous_never(codes) == FALSE
status_code_ambiguous(codes) == Cardinality(codes) > 1

\* `code not in self._responses[type(response)].keys()` is false
code_registered_always(codes, code) == TRUE
code_registered(codes, code) == code \in codes

\* a variant that validates the payload before it looks at the response table
postprocess_response_validating_first(op, returned) ==
    LET response == returned.response
        cls == response.class
        codes == ResponseCodes(op.responses, cls)
        code == IF returned.code # NoCode THEN returned.code
                ELSE IF codes = {} THEN NoCode
                ELSE CHOOSE c \in codes : TRUE
    IN  IF is_raw_response(response)
        THEN Return([response |-> response,
                     code |-> IF returned.code = NoCode THEN 200 ELSE returned.code,
                     mimetype |-> ""])
        ELSE IF cls \in ModelClasses /\ validate_errors(response) # NoErrors
        THEN Throw(InvalidResponseError(validate_errors(response)))
        ELSE IF ~type_declared(op, cls)
        THEN Throw(UnexpectedResponseError(cls, NoCode))
        ELSE IF returned.code = NoCode /\ status_code_ambiguous(codes)
        THEN Throw(InvalidResponseError(MissingStatusCode))
        ELSE IF ~code_registered(codes, code)
        THEN Throw(UnexpectedResponseError(cls, code))
        ELSE Return([response |-> response, code |-> code,
                     mimetype |-> ResponseDataOf(op.responses, cls, code).mimetype])

postprocess_response(op, returned) ==
    LET response == returned.response
        cls == response.class
        codes == ResponseCodes(op.responses, cls)
        code == IF returned.code # NoCode THEN returned.code
                ELSE IF codes = {} THEN NoCode
                ELSE CHOOSE c \in codes : TRUE
    IN  IF is_raw_response(response)
        THEN Return([response |-> response,
                     code |-> IF returned.code = NoCode THEN 200 ELSE returned.code,
                     mimetype |-> ""])
        ELSE IF ~type_declared(op, cls)
        THEN Throw(UnexpectedResponseError(cls, NoCode))
        ELSE IF returned.code = NoCode /\ status_code_ambiguous(codes)
        THEN Throw(InvalidResponseError(MissingStatusCode))
        ELSE IF ~code_registered(codes, code)
        THEN Throw(UnexpectedResponseError(cls, code))
        ELSE IF cls \in ModelClasses /\ validate_errors(response) # NoErrors
        THEN Throw(InvalidResponseError(validate_errors(response)))
        ELSE Return([response |-> response, code |-> code,
                     mimetype |-> ResponseDataOf(op.responses, cls, code).mimetype])

(***************************************************************************)
(* What the decorated function hands to Flask after post-processing        *)
(* (FlaskOperationWrapper.get_decorated_function, after the handler call). *)
(***************************************************************************)
NoOutcome == [kind |-> "none"]

Raised(exception) == [kind |-> "exception", exception |-> exception]

Responded(processed) ==
    IF is_raw_response(processed.response)
    THEN [kind |-> "raw", response |-> processed.response, code |-> processed.code]
    ELSE [kind |-> "json", response |-> processed.response, code |-> processed.code]

(***************************************************************************)
(* Component definitions of the extension (extension.py) and of the        *)
(* legacy Swagger extension (api_utils/flask.py).                          *)
(***************************************************************************)
DefinitionNames == {"name", "other"}
SchemaBodies == {[foo |-> "bar"], [baz |-> "bar"], [foo |-> "baz"]}

NoDefinitions == [n \in {} |-> [foo |-> "bar"]]

ConflictingDefinitions == "ValueError: Conflicting definitions"

\* a variant that replaces an existing definition instead of comparing
add_definition_overwriting(section, name, schema) ==
    Ok([n \in DOMAIN section \cup {name} |-> IF n = name THEN schema ELSE section[n]])

\* the body shared by the add_*_definition methods: `section` is the
\* section of the components (or the legacy definitions) the method works on
add_definition(section, name, schema) ==
    IF name \in DOMAIN section
    THEN IF section[name] # schema
         THEN Raise(ConflictingDefinitions)
         ELSE Ok(section)
    ELSE Ok([n \in DOMAIN section \cup {name} |-> IF n = name THEN schema ELSE section[n]])

NoCall == [method |-> NoneVal, name |-> NoneVal, schema |-> [foo |-> "bar"]]

(***************************************************************************)
(* Error handling at the boundary: Apistrap.exception_to_response, the     *)
(* default handler functions of FlaskApistrap and FlaskApistrap.           *)
(* _error_handler, which Flask calls when init_app registered it.          *)
(***************************************************************************)
NoDebugData == [exception_type |-> NoneVal, exception_message |-> NoneVal, traceback |-> NoneVal]

format_exception(exception) ==
    [exception_type |-> exception.class, exception_message |-> exception.message,
     traceback |-> "traceback"]

ErrorResponse(message, debug_data) == [message |-> message, debug_data |-> debug_data]

InternalServerError == "Internal server error"

http_error_handler(exception) == ErrorResponse(exception.message, NoDebugData)

error_handler(exception) ==
    IF app.debug
    THEN ErrorResponse(exception.message, format_exception(exception))
    ELSE ErrorResponse(exception.message, NoDebugData)

\* a variant that describes the exception whatever the debug flag is
internal_error_handler_verbose(exception) ==
    ErrorResponse(exception.message, format_exception(exception))

internal_error_handler(exception) ==
    IF app.debug
    THEN ErrorResponse(exception.message, format_exception(exception))
    ELSE ErrorResponse(InternalServerError, NoDebugData)

\* the handler function of a custom entry, as in the tests
custom_error_handler(exception) == ErrorResponse("", NoDebugData)

\* `handler.handler(exception)`
call_handler(handler, exception) ==
    CASE handler.handler = "http_error_handler" -> http_error_handler(exception)
      [] handler.handler = "error_handler" -> error_handler(exception)
      [] handler.handler = "internal_error_handler" -> internal_error_handler(exception)
      [] OTHER -> custom_error_handler(exception)

\* `return None` of exception_to_response
NoResponse == [is_none |-> TRUE, info |-> ErrorResponse("", NoDebugData), code |-> NoCode]

exception_to_response(exception) ==
    LET handler == exception_handler(exception.class)
    IN  IF handler = NoHandler THEN NoResponse
        ELSE [is_none |-> FALSE, info |-> call_handler(handler, exception),
              code |-> get_code(handler, exception.class)]

has_error_handlers == use_default_error_handlers \/ error_handlers # << >>

UnexpectedExceptionType(exception) == ExceptionOf("ValueError", exception.class)

NoBoundary == [kind |-> "none"]

\* FlaskApistrap._error_handler: the response, or the exception it raises
flask_error_handler(exception) ==
    LET response == exception_to_response(exception)
    IN  IF response.is_none
        THEN [kind |-> "exception", exception |-> UnexpectedExceptionType(exception)]
        ELSE [kind |-> "response", body |-> response.info, code |-> response.code]

\* what the caller of a request gets when the view raised: with the handler
\* registered Flask calls it, without it Flask answers an HTTPException
\* itself and lets any other exception through
handle_user_exception(exception) ==
    IF app.handles_errors THEN flask_error_handler(exception)
    ELSE IF issubclass(exception.class, "HTTPException")
         THEN [kind |-> "response", body |-> ErrorResponse(exception.message, NoDebugData),
               code |-> HttpExceptionCode(exception.class)]
         ELSE [kind |-> "exception", exception |-> exception]

(***************************************************************************)
(* Initial state: a handler has been defined, nothing is decorated or      *)
(* registered yet.  The extension is bound to a Flask app in production    *)
(* mode; the views are declared after that, as in the tests.               *)
(***************************************************************************)
NotExtracted == [is_none |-> TRUE, list |-> << >>]

InitRequest ==
    /\ pc = "idle"
    /\ request = NoRequest
    /\ kwargs = NoKwargs
    /\ handler_calls = 0
    /\ result = NoResult
    /\ outcome = NoOutcome
    /\ credentials = NoCredentials
    /\ args = NoArgs
    /\ boundary = NoBoundary

InitRegistry ==
    /\ components = [schemas |-> NoDefinitions, responses |-> NoDefinitions]
    /\ definitions = NoDefinitions
    /\ registry_call = NoCall
    /\ registry_error = NoError

NoConfigCall == [method |-> NoneVal, value |-> [none |-> NoneVal]]

\* Apistrap.__init__
InitConfig ==
    /\ error_handlers = << >>
    /\ use_default_error_handlers = TRUE
    /\ config = [spec_url |-> "/spec.json", ui_url |-> "/apidocs", redoc_url |-> NoneVal]
    /\ config_call = NoConfigCall
    /\ config_error = NoError

NoSchemeCall == [scheme |-> NoneVal, default |-> FALSE]

InitSecurity ==
    /\ security_schemes = << >>
    /\ default_security_scheme = NoneVal
    /\ security_enforcers = {}
    /\ scheme_call = NoSchemeCall
    /\ scheme_error = NoError

(***************************************************************************)
(* The URL rules of the Flask application.  A view function is recorded by *)
(* the number of apistrap wrappers around the handler the application      *)
(* registered: 0 is the handler itself.  The string of a rule is kept as    *)
(* its literal part and the <filter:name> parameters that follow it.       *)
(***************************************************************************)
Rule(prefix, parameters) == [prefix |-> prefix, parameters |-> parameters]

SingleRule == <<[rule |-> Rule("/", << >>), endpoint |-> "view", methods |-> <<"GET">>]>>

\* the context of a thread that serves no request
IdleContext ==
    [pc |-> "idle", request |-> NoRequest, kwargs |-> NoKwargs, handler_calls |-> 0,
     result |-> NoResult, outcome |-> NoOutcome, credentials |-> NoCredentials,
     args |-> NoArgs, boundary |-> NoBoundary]

\* no model is being converted
NoConversion == [status |-> "idle", root |-> NoneVal, stack |-> << >>]

InitApplication ==
    /\ rules = SingleRule
    /\ view_functions = [view |-> 0]
    /\ paths = {}
    /\ served = << >>
    /\ suspended = IdleContext
    /\ conversion = NoConversion

Unbound == [bound |-> FALSE, debug |-> FALSE, handles_errors |-> FALSE]

\* the extension after init_app(app) with the configuration of __init__
BoundInProduction == [bound |-> TRUE, debug |-> FALSE, handles_errors |-> TRUE]

Init ==
    /\ function \in Functions
    /\ decorators = << >>
    /\ operations = NotExtracted
    /\ build_error = NoError
    /\ app = BoundInProduction
    /\ InitRequest
    /\ InitRegistry
    /\ InitConfig
    /\ InitSecurity
    /\ InitApplication

(***************************************************************************)
(* Apistrap._decorate: a decorator factory's result is applied to the      *)
(* handler while the application is being defined.                         *)
(***************************************************************************)
DecorateWith(choices) ==
    /\ operations.is_none
    /\ Len(decorators) < MaxDecorators
    /\ \E decorator \in choices : decorators' = Append(decorators, decorator)
    /\ UNCHANGED <<function, operations, build_error>>
    /\ UNCHANGED <<reqVars, regVars, cfgVars, secVars, edgeVars, appVars>>

Decorate == DecorateWith(Decorators)

\* Apistrap._is_route_ignored, for a handler without the ignore decorator
is_route_ignored(method) == method \notin {"GET", "POST", "PUT", "DELETE", "PATCH"}

\* FlaskOperationWrapper.URL_FILTER_MAP.get(url_filter, str)
url_filter_type(url_filter) ==
    CASE url_filter = "int" -> "int"
      [] url_filter = "float" -> "float"
      [] OTHER -> "str"

\* FlaskOperationWrapper._get_path_parameters: the type of a parameter of the
\* rule is the annotation of the handler's parameter, else the filter's type
RECURSIVE get_path_parameters(_, _)
get_path_parameters(f, declared) ==
    IF declared = << >>
    THEN << >>
    ELSE LET name == Head(declared).name
             param_refl == f.params[CHOOSE i \in DOMAIN f.params : f.params[i].name = name]
             param_type ==
                 IF param_refl.annotation # EmptyAnnotation /\ param_refl.annotation # NoneVal
                 THEN param_refl.annotation
                 ELSE IF Head(declared).filter # NoneVal
                      THEN url_filter_type(Head(declared).filter)
                      ELSE "str"
         IN  <<[name |-> name, type |-> param_type]>> \o get_path_parameters(f, Tail(declared))

\* FlaskApistrap._extract_operations, the loop over rule.methods: every method
\* that is not ignored gets a wrapper of the handler read before the loop
RECURSIVE wrap_methods(_, _, _, _)
wrap_methods(rule, methods, handler, built) ==
    IF methods = << >>
    THEN << >>
    ELSE IF is_route_ignored(Head(methods))
         THEN wrap_methods(rule, Tail(methods), handler, built)
         ELSE <<[url_rule |-> rule.rule, method |-> Head(methods),
                 wrapped_function |-> handler,
                 path_parameters |-> get_path_parameters(function, rule.rule.parameters)] @@ built>>
              \o wrap_methods(rule, Tail(methods), handler, built)

\* the view function of the rule's endpoint after the loop over its methods:
\* each wrapper built replaces it by its decorated function
install_rule(rule, views) ==
    IF wrap_methods(rule, rule.methods, views[rule.endpoint], [none |-> NoneVal]) = << >>
    THEN views
    ELSE [views EXCEPT ![rule.endpoint] = views[rule.endpoint] + 1]

\* FlaskApistrap._extract_operations, the loop over the rules: the handler of a
\* rule is read from app.view_functions when the rule's turn comes
RECURSIVE extract_rules(_, _, _)
extract_rules(remaining, views, built) ==
    IF remaining = << >>
    THEN << >>
    ELSE wrap_methods(Head(remaining), Head(remaining).methods,
                      views[Head(remaining).endpoint], built)
         \o extract_rules(Tail(remaining), install_rule(Head(remaining), views), built)

RECURSIVE install_rules(_, _)
install_rules(remaining, views) ==
    IF remaining = << >>
    THEN views
    ELSE install_rules(Tail(remaining), install_rule(Head(remaining), views))

(***************************************************************************)
(* FlaskApistrap._extract_operations: runs before the first request and on *)
(* a request for the specification; builds the wrapper of the handler and  *)
(* installs the decorated function.                                        *)
(***************************************************************************)
\* FlaskApistrap._extract_operations past its early return: the wrappers
\* built, the exception raised and the view functions installed
build_operations ==
    LET built == process_metadata(function, decorators)
    IN  IF built.error # NoError
        THEN [operations |-> [is_none |-> FALSE, list |-> << >>],
              error |-> built.error,
              view_functions |-> view_functions]
        ELSE [operations |-> [is_none |-> FALSE,
                              list |-> extract_rules(rules, view_functions, built.value)],
              error |-> NoError,
              view_functions |-> install_rules(rules, view_functions)]

\* a variant without the early return
extract_operations_again == build_operations

\* FlaskApistrap._extract_operations: `if self._operations is not None: return`
extract_operations ==
    IF ~operations.is_none
    THEN [operations |-> operations, error |-> NoError, view_functions |-> view_functions]
    ELSE build_operations

ExtractOperations ==
    /\ app.bound
    /\ operations.is_none
    /\ operations' = extract_operations.operations
    /\ build_error' = extract_operations.error
    /\ view_functions' = extract_operations.view_functions
    /\ UNCHANGED <<function, decorators, rules, paths, served, suspended, conversion>>
    /\ UNCHANGED <<reqVars, regVars, cfgVars, secVars, edgeVars>>

Built == ~operations.is_none /\ operations.list # << >>
TheOperation == operations.list[1]

(***************************************************************************)
(* The decorated function (FlaskOperationWrapper.get_decorated_function),  *)
(* step by step: security, request body, query parameters, the handler.    *)
(* The credentials and the query string are recorded only when the wrapper *)
(* has something to look up in them.                                       *)
(***************************************************************************)
RequiredScopes == find_decorators(decorators, "SecurityDecorator")

BeginRequest ==
    /\ Built
    /\ pc = "idle"
    /\ \E creds \in IF RequiredScopes = << >> THEN {NoCredentials} ELSE Credentials :
         LET enforced == enforce_security(RequiredScopes, creds, NoException)
         IN  /\ credentials' = creds
             /\ IF enforced.raised
                THEN /\ outcome' = Raised(enforced.exception)
                     /\ boundary' = handle_user_exception(enforced.exception)
                     /\ pc' = "done"
                ELSE /\ pc' = "load_body"
                     /\ UNCHANGED <<outcome, boundary>>
    /\ UNCHANGED <<request, kwargs, handler_calls, result, args>>
    /\ UNCHANGED <<opVars, regVars, cfgVars, secVars, appVars>>

LoadRequestBody ==
    /\ pc = "load_body"
    /\ accepts_body(TheOperation)
    /\ \E req \in Requests :
         LET data == load_request_body_primitive(req)
             loaded == load_request_body(TheOperation, data.value)
         IN  /\ request' = req
             /\ IF data.raised
                THEN /\ outcome' = Raised(data.exception)
                     /\ boundary' = handle_user_exception(data.exception)
                     /\ pc' = "done"
                     /\ UNCHANGED kwargs
                ELSE IF loaded.raised
                THEN /\ outcome' = Raised(loaded.exception)
                     /\ boundary' = handle_user_exception(loaded.exception)
                     /\ pc' = "done"
                     /\ UNCHANGED kwargs
                ELSE /\ kwargs' = loaded.value
                     /\ pc' = "query"
                     /\ UNCHANGED <<outcome, boundary>>
    /\ UNCHANGED <<handler_calls, result, credentials, args>>
    /\ UNCHANGED <<opVars, regVars, cfgVars, secVars, appVars>>

SkipRequestBody ==
    /\ pc = "load_body"
    /\ ~accepts_body(TheOperation)
    /\ pc' = "query"
    /\ UNCHANGED <<request, kwargs, handler_calls, result, outcome>>
    /\ UNCHANGED <<opVars, regVars, cfgVars, secVars, edgeVars, appVars>>

LoadQueryParameters ==
    /\ pc = "query"
    /\ \E query \in IF TheOperation.query_parameters = << >> THEN {NoArgs} ELSE QueryArgs :
         LET loaded == load_query_parameters(function, TheOperation.query_parameters,
                                             query, kwargs)
         IN  /\ args' = query
             /\ IF loaded.raised
                THEN /\ outcome' = Raised(loaded.exception)
                     /\ boundary' = handle_user_exception(loaded.exception)
                     /\ pc' = "done"
                     /\ UNCHANGED kwargs
                ELSE /\ kwargs' = loaded.value
                     /\ pc' = "call"
                     /\ UNCHANGED <<outcome, boundary>>
    /\ UNCHANGED <<request, handler_calls, result, credentials>>
    /\ UNCHANGED <<opVars, regVars, cfgVars, secVars, appVars>>

CallHandler ==
    /\ pc = "call"
    /\ \E returned \in HandlerResults :
         LET processed == postprocess_response(TheOperation, returned)
         IN  /\ result' = returned
             /\ outcome' = IF processed.raised
                           THEN Raised(processed.exception)
                           ELSE Responded(processed.value)
             /\ boundary' = IF processed.raised
                            THEN handle_user_exception(processed.exception)
                            ELSE NoBoundary
    /\ handler_calls' = handler_calls + 1
    /\ pc' = "done"
    /\ UNCHANGED <<request, kwargs, credentials, args>>
    /\ UNCHANGED <<opVars, regVars, cfgVars, secVars, appVars>>

FinishRequest ==
    /\ pc = "done"
    /\ pc' = "idle"
    /\ request' = NoRequest
    /\ kwargs' = NoKwargs
    /\ handler_calls' = 0
    /\ result' = NoResult
    /\ outcome' = NoOutcome
    /\ credentials' = NoCredentials
    /\ args' = NoArgs
    /\ boundary' = NoBoundary
    /\ UNCHANGED <<opVars, regVars, cfgVars, secVars, appVars>>

Next ==
    \/ Decorate
    \/ ExtractOperations
    \/ BeginRequest
    \/ LoadRequestBody
    \/ SkipRequestBody
    \/ LoadQueryParameters
    \/ CallHandler
    \/ FinishRequest

Spec == Init /\ [][Next]_vars

(***************************************************************************)
(* The component registry on its own: definitions are added in any order.  *)
(***************************************************************************)
RegistryInit ==
    /\ function = [params |-> << >>, return_annotation |-> EmptyAnnotation, raises |-> << >>]
    /\ decorators = << >>
    /\ operations = NotExtracted
    /\ build_error = NoError
    /\ app = BoundInProduction
    /\ InitRequest
    /\ InitRegistry
    /\ InitConfig
    /\ InitSecurity
    /\ InitApplication

Register(method, name, schema, section) ==
    /\ registry_call' = [method |-> method, name |-> name, schema |-> schema]
    /\ registry_error' = add_definition(section, name, schema).error

AddRequestDefinition ==
    /\ \E name \in DefinitionNames, schema \in SchemaBodies :
         LET added == add_definition(components.schemas, name, schema)
         IN  /\ Register("add_request_definition", name, schema, components.schemas)
             /\ components' = IF added.error # NoError THEN components
                              ELSE [components EXCEPT !.schemas = added.value]
    /\ UNCHANGED definitions
    /\ UNCHANGED <<opVars, reqVars, cfgVars, secVars, edgeVars, appVars>>

AddResponseDefinition ==
    /\ \E name \in DefinitionNames, schema \in SchemaBodies :
         LET added == add_definition(components.responses, name, schema)
         IN  /\ Register("add_response_definition", name, schema, components.responses)
             /\ components' = IF added.error # NoError THEN components
                              ELSE [components EXCEPT !.responses = added.value]
    /\ UNCHANGED definitions
    /\ UNCHANGED <<opVars, reqVars, cfgVars, secVars, edgeVars, appVars>>

AddSchemaDefinition ==
    /\ \E name \in DefinitionNames, schema \in SchemaBodies :
         LET added == add_definition(components.schemas, name, schema)
         IN  /\ Register("add_schema_definition", name, schema, components.schemas)
             /\ components' = IF added.error # NoError THEN components
                              ELSE [components EXCEPT !.schemas = added.value]
    /\ UNCHANGED definitions
    /\ UNCHANGED <<opVars, reqVars, cfgVars, secVars, edgeVars, appVars>>

SwaggerAddDefinition ==
    /\ \E name \in DefinitionNames, schema \in SchemaBodies :
         LET added == add_definition(definitions, name, schema)
         IN  /\ Register("Swagger.add_definition", name, schema, definitions)
             /\ definitions' = IF added.error # NoError THEN definitions ELSE added.value
    /\ UNCHANGED components
    /\ UNCHANGED <<opVars, reqVars, cfgVars, secVars, edgeVars, appVars>>

RegistryNext ==
    \/ AddRequestDefinition
    \/ AddResponseDefinition
    \/ AddSchemaDefinition
    \/ SwaggerAddDefinition

RegistrySpec == RegistryInit /\ [][RegistryNext]_vars

(***************************************************************************)
(* Configuration of the extension: the guarded setters, add_error_handler  *)
(* and FlaskApistrap.init_app.                                             *)
(***************************************************************************)
MaxHandlers == 2

ApistrapExtensionError == "ApistrapExtensionError"

\* a variant that lets every change through
ensure_not_bound_never(message) == NoError

\* Apistrap._ensure_not_bound with FlaskApistrap._is_bound
ensure_not_bound(message) == IF app.bound THEN ApistrapExtensionError ELSE NoError

SpecUrls == {"/swagger.json", NoneVal}
UiUrls == {"/ui/", "/docs", NoneVal}
RedocUrls == {"/redoc/", NoneVal}

\* `value.rstrip("/") if value is not None else None` on the values above
rstrip_slash(value) ==
    CASE value = "/ui/" -> "/ui"
      [] value = "/redoc/" -> "/redoc"
      [] OTHER -> value

\* the custom error handlers the application may register
CustomHandlers ==
    [exception_class : {"ApiClientError", "UnsupportedMediaTypeError", "ForbiddenRequestError"},
     http_code : {403, 418},
     handler : {"custom"}]

\* the value of a call is kept under the name of its kind: a url, a flag
\* or a handler entry
ConfigCall(method, value) ==
    /\ config_call' = [method |-> method, value |-> value]
    /\ config_error' = ensure_not_bound(method)

SetSpecUrl ==
    /\ \E value \in SpecUrls :
         /\ ConfigCall("spec_url", [url |-> value])
         /\ config' = IF ensure_not_bound("spec_url") # NoError THEN config
                      ELSE [config EXCEPT !.spec_url = value]
    /\ UNCHANGED <<error_handlers, use_default_error_handlers, app>>
    /\ UNCHANGED <<opVars, reqVars, regVars, secVars, edgeVars, appVars>>

SetUiUrl ==
    /\ \E value \in UiUrls :
         /\ ConfigCall("ui_url", [url |-> value])
         /\ config' = IF ensure_not_bound("ui_url") # NoError THEN config
                      ELSE [config EXCEPT !.ui_url = rstrip_slash(value)]
    /\ UNCHANGED <<error_handlers, use_default_error_handlers, app>>
    /\ UNCHANGED <<opVars, reqVars, regVars, secVars, edgeVars, appVars>>

SetRedocUrl ==
    /\ \E value \in RedocUrls :
         /\ ConfigCall("redoc_url", [url |-> value])
         /\ config' = IF ensure_not_bound("redoc_url") # NoError THEN config
                      ELSE [config EXCEPT !.redoc_url = rstrip_slash(value)]
    /\ UNCHANGED <<error_handlers, use_default_error_handlers, app>>
    /\ UNCHANGED <<opVars, reqVars, regVars, secVars, edgeVars, appVars>>

SetUseDefaultErrorHandlers ==
    /\ \E value \in BOOLEAN :
         /\ ConfigCall("use_default_error_handlers", [flag |-> value])
         /\ use_default_error_handlers' =
                IF ensure_not_bound("use_default_error_handlers") # NoError
                THEN use_default_error_handlers
                ELSE value
    /\ UNCHANGED <<error_handlers, config, app>>
    /\ UNCHANGED <<opVars, reqVars, regVars, secVars, edgeVars, appVars>>

AddErrorHandler ==
    /\ app.bound \/ Len(error_handlers) < MaxHandlers
    /\ \E handler \in CustomHandlers :
         /\ ConfigCall("add_error_handler", [entry |-> handler])
         /\ error_handlers' = IF ensure_not_bound("add_error_handler") # NoError
                              THEN error_handlers
                              ELSE Append(error_handlers, handler)
    /\ UNCHANGED <<use_default_error_handlers, config, app>>
    /\ UNCHANGED <<opVars, reqVars, regVars, secVars, edgeVars, appVars>>

\* init_app registers _error_handler with the app when has_error_handlers
InitApp ==
    /\ ~app.bound
    /\ \E debug \in BOOLEAN :
         app' = [bound |-> TRUE, debug |-> debug, handles_errors |-> has_error_handlers]
    /\ UNCHANGED <<error_handlers, use_default_error_handlers, config, config_call,
                   config_error>>
    /\ UNCHANGED <<opVars, reqVars, regVars, secVars, edgeVars, appVars>>

ConfigInit ==
    /\ function = [params |-> << >>, return_annotation |-> EmptyAnnotation, raises |-> << >>]
    /\ decorators = << >>
    /\ operations = NotExtracted
    /\ build_error = NoError
    /\ app = Unbound
    /\ InitRequest
    /\ InitRegistry
    /\ InitConfig
    /\ InitSecurity
    /\ InitApplication

ConfigNext ==
    \/ SetSpecUrl
    \/ SetUiUrl
    \/ SetRedocUrl
    \/ SetUseDefaultErrorHandlers
    \/ AddErrorHandler
    \/ InitApp

ConfigSpec == ConfigInit /\ [][ConfigNext]_vars

(***************************************************************************)
(* Requests whose view raises: the decorated function lets the exception   *)
(* through and Flask deals with it.                                        *)
(***************************************************************************)
RaisedClasses ==
    {"ApiClientError", "InvalidFieldsError", "UnsupportedMediaTypeError", "ApiServerError",
     "UnexpectedResponseError", "InvalidResponseError", "RuntimeError", "NotFound",
     "ForbiddenRequestError"}

RaisedExceptions ==
    {ExceptionOf(class, message) :
        class \in RaisedClasses, message \in {"Runtime error occurred", "Another error"}}

FailingRequest ==
    /\ app.bound
    /\ pc = "idle"
    /\ \E exception \in RaisedExceptions :
         /\ outcome' = Raised(exception)
         /\ boundary' = handle_user_exception(exception)
    /\ pc' = "done"
    /\ handler_calls' = handler_calls + 1
    /\ UNCHANGED <<request, kwargs, result, credentials, args>>
    /\ UNCHANGED <<opVars, regVars, cfgVars, secVars, appVars>>

ErrorNext ==
    \/ SetUseDefaultErrorHandlers
    \/ AddErrorHandler
    \/ InitApp
    \/ FailingRequest
    \/ FinishRequest

ErrorSpec == ConfigInit /\ [][ErrorNext]_vars

(***************************************************************************)
(* Security: schemes are registered with their enforcers, then handlers    *)
(* carrying security decorators are built and called.                      *)
(***************************************************************************)
\* a variant in which a later default scheme replaces the earlier one
add_security_scheme_replacing_default(scheme, default) ==
    [security_schemes |-> Append(security_schemes, scheme),
     default_security_scheme |-> IF default THEN scheme ELSE default_security_scheme,
     security_enforcers |-> security_enforcers \cup {scheme},
     error |-> NoError]

\* FlaskApistrap.add_security_scheme with Apistrap._add_security_scheme:
\* the extension's fields after the call and the error it raised
add_security_scheme(scheme, default) ==
    IF default /\ default_security_scheme # NoneVal
    THEN [security_schemes |-> Append(security_schemes, scheme),
          default_security_scheme |-> default_security_scheme,
          security_enforcers |-> security_enforcers,
          error |-> ApistrapExtensionError]
    ELSE [security_schemes |-> Append(security_schemes, scheme),
          default_security_scheme |-> IF default THEN scheme ELSE default_security_scheme,
          security_enforcers |-> security_enforcers \cup {scheme},
          error |-> NoError]

\* a scheme is registered once: the component registry of the specification
\* refuses a second scheme of the same name; schemes are set up between
\* requests
AddSecurityScheme ==
    /\ pc = "idle"
    /\ \E scheme \in Schemes, default \in BOOLEAN :
         /\ \A i \in DOMAIN security_schemes : security_schemes[i] # scheme
         /\ LET added == add_security_scheme(scheme, default)
            IN  /\ security_schemes' = added.security_schemes
                /\ default_security_scheme' = added.default_security_scheme
                /\ security_enforcers' = added.security_enforcers
                /\ scheme_error' = added.error
                /\ scheme_call' = [scheme |-> scheme, default |-> default]
    /\ UNCHANGED <<opVars, reqVars, regVars, cfgVars, edgeVars, appVars>>

\* the security decorators of the modelled application
SecurityDecorators ==
    {security({"read"}, NoneVal), security({"frobnicate"}, NoneVal),
     security({"read"}, "oauth"), security({"read"}, "apikey")}

DecorateSecurity == DecorateWith(SecurityDecorators)

\* a plain handler and one taking a request body; the application maps
\* ForbiddenRequestError to 403 as the tests do
SecurityInit ==
    /\ function \in {[params |-> Signature(a), return_annotation |-> EmptyAnnotation,
                      raises |-> << >>] : a \in {<< >>, <<"Request">>}}
    /\ decorators = << >>
    /\ operations = NotExtracted
    /\ build_error = NoError
    /\ app = BoundInProduction
    /\ InitRequest
    /\ InitRegistry
    /\ error_handlers = <<[exception_class |-> "ForbiddenRequestError", http_code |-> 403,
                           handler |-> "custom"]>>
    /\ use_default_error_handlers = TRUE
    /\ config = [spec_url |-> "/spec.json", ui_url |-> "/apidocs", redoc_url |-> NoneVal]
    /\ config_call = NoConfigCall
    /\ config_error = NoError
    /\ InitSecurity
    /\ InitApplication

SecurityNext ==
    \/ AddSecurityScheme
    \/ DecorateSecurity
    \/ ExtractOperations
    \/ BeginRequest
    \/ LoadRequestBody
    \/ SkipRequestBody
    \/ LoadQueryParameters
    \/ CallHandler
    \/ FinishRequest

SecuritySpec == SecurityInit /\ [][SecurityNext]_vars

(***************************************************************************)
(* Query parameters: handlers with str and int parameters, with and        *)
(* without defaults, declare some of them with accepts_qs.                 *)
(***************************************************************************)
\* the defaults written in the signatures, as in the tests
DefaultOfType(annotation) == IF annotation = "int" THEN IntValue("999") ELSE StrValue("hello")

\* def view(a: A, b: B), def view(a: A, b: B = ...) and
\* def view(a: A = ..., b: B = ...)
QueryFunctions ==
    {[params |-> <<[name |-> "a", annotation |-> ta,
                    default |-> IF with >= 2 THEN DefaultOfType(ta) ELSE NoDefault],
                   [name |-> "b", annotation |-> tb,
                    default |-> IF with >= 1 THEN DefaultOfType(tb) ELSE NoDefault]>>,
      return_annotation |-> EmptyAnnotation, raises |-> << >>] :
        ta \in {"str", "int"}, tb \in {"str", "int"}, with \in 0..2}

QueryDecorators == {accepts_qs(<<"a">>), accepts_qs(<<"b">>), accepts_qs(<<"a", "b">>)}

DecorateQuery == DecorateWith(QueryDecorators)

QueryInit ==
    /\ function \in QueryFunctions
    /\ decorators = << >>
    /\ operations = NotExtracted
    /\ build_error = NoError
    /\ app = BoundInProduction
    /\ InitRequest
    /\ InitRegistry
    /\ InitConfig
    /\ InitSecurity
    /\ InitApplication

QueryNext ==
    \/ DecorateQuery
    \/ ExtractOperations
    \/ BeginRequest
    \/ SkipRequestBody
    \/ LoadQueryParameters
    \/ CallHandler
    \/ FinishRequest

QuerySpec == QueryInit /\ [][QueryNext]_vars

(***************************************************************************)
(* The AioHTTP adapter: the pre-decorator that binds path parameters and   *)
(* the error handling middleware around every handler.                     *)
(***************************************************************************)
\* the texts a client may put in a path segment
PathTexts == {"x", "42", "foobar"}

\* request.match_info for the route /{a}/{b}
MatchInfos == [{"a", "b"} -> PathTexts]

\* async def view(a: A, b: B) with A, B among str, int and no annotation
PathFunctions ==
    {[params |-> <<[name |-> "a", annotation |-> ta, default |-> NoDefault],
                   [name |-> "b", annotation |-> tb, default |-> NoDefault]>>,
      return_annotation |-> EmptyAnnotation, raises |-> << >>] :
        ta \in {"str", "int", EmptyAnnotation}, tb \in {"str", "int", EmptyAnnotation}}

\* AioHTTPApistrap._parse_parameter_value
parse_parameter_value(parameter, value) ==
    IF parameter.annotation = EmptyAnnotation THEN Return(StrValue(value))
    ELSE IF parameter.annotation = "str" THEN Return(StrValue(value))
    ELSE IF value \in IntLiterals THEN Return(IntValue(value))
    ELSE Throw(ExceptionOf("ValueError", "invalid literal for int()"))

\* the dict comprehension of the pre-decorator, over the accepted path
\* parameters still to be parsed
RECURSIVE parse_path_parameters(_, _, _, _)
parse_path_parameters(f, names, match_info, collected) ==
    IF names = << >> THEN Return(collected)
    ELSE LET name == Head(names)
             parsed == parse_parameter_value(f.params[ParamIndex(f, name)], match_info[name])
         IN  IF parsed.raised THEN parsed
             ELSE parse_path_parameters(
                      f, Tail(names), match_info,
                      [n \in DOMAIN collected \cup {name} |->
                          IF n = name THEN parsed.value ELSE collected[n]])

\* ErrorHandlerMiddleware._default_handlers
aio_default_handlers ==
    << [exception_class |-> "HTTPException", handler |-> "_handle_http_error"],
       [exception_class |-> "ApiClientError", handler |-> "_handle_client_error"],
       [exception_class |-> "Exception", handler |-> "_handle_server_error"] >>

\* ErrorHandlerMiddleware._handle_http_error, _handle_client_error and
\* _handle_server_error
aio_call_handler(handler, exception) ==
    CASE handler = "_handle_http_error" ->
             [kind |-> "response", body |-> ErrorResponse(exception.message, NoDebugData),
              code |-> HttpExceptionCode(exception.class)]
      [] handler = "_handle_client_error" ->
             [kind |-> "response",
              body |-> ErrorResponse(exception.message,
                                     IF app.debug THEN format_exception(exception)
                                     ELSE NoDebugData),
              code |-> 400]
      [] OTHER ->
             [kind |-> "response",
              body |-> IF app.debug
                       THEN ErrorResponse(exception.message, format_exception(exception))
                       ELSE ErrorResponse(InternalServerError, NoDebugData),
              code |-> 500]

\* ErrorHandlerMiddleware.handle_error: the first handler whose type the
\* exception is an instance of; no handler was added with add_handler
aio_handle_error(exception) ==
    LET handlers == IF use_default_error_handlers THEN aio_default_handlers ELSE << >>
        matching == {i \in DOMAIN handlers :
                        issubclass(exception.class, handlers[i].exception_class)}
    IN  IF matching = {}
        THEN [kind |-> "exception", exception |-> UnexpectedExceptionType(exception)]
        ELSE aio_call_handler(
                 handlers[CHOOSE i \in matching : \A j \in matching : i <= j].handler,
                 exception)

PathInit ==
    /\ function \in PathFunctions
    /\ decorators = << >>
    /\ operations = NotExtracted
    /\ build_error = NoError
    /\ app \in {[bound |-> TRUE, debug |-> d, handles_errors |-> TRUE] : d \in BOOLEAN}
    /\ InitRequest
    /\ InitRegistry
    /\ error_handlers = << >>
    /\ use_default_error_handlers \in BOOLEAN
    /\ config = [spec_url |-> "/spec.json", ui_url |-> "/apidocs", redoc_url |-> NoneVal]
    /\ config_call = NoConfigCall
    /\ config_error = NoError
    /\ InitSecurity
    /\ InitApplication

\* wrapped_handler of _pre_decorator inside the middleware: the path
\* parameters are parsed into the keyword arguments
AioBindPathParameters ==
    /\ pc = "idle"
    /\ \E match_info \in MatchInfos :
         LET parsed == parse_path_parameters(function, <<"a", "b">>, match_info, NoKwargs)
         IN  /\ args' = match_info
             /\ IF parsed.raised
                THEN /\ outcome' = Raised(parsed.exception)
                     /\ boundary' = aio_handle_error(parsed.exception)
                     /\ pc' = "done"
                     /\ UNCHANGED kwargs
                ELSE /\ kwargs' = parsed.value
                     /\ pc' = "call"
                     /\ UNCHANGED <<outcome, boundary>>
    /\ UNCHANGED <<request, handler_calls, result, credentials>>
    /\ UNCHANGED <<opVars, regVars, cfgVars, secVars, appVars>>

\* the view: it answers with its arguments, or raises
AioCallView ==
    /\ pc = "call"
    /\ \/ /\ outcome' = [kind |-> "raw", response |-> kwargs, code |-> 200]
          /\ UNCHANGED boundary
       \/ \E exception \in {ExceptionOf("RuntimeError", "Runtime error occurred"),
                            ApiClientError("Client error occurred")} :
            /\ outcome' = Raised(exception)
            /\ boundary' = aio_handle_error(exception)
    /\ handler_calls' = handler_calls + 1
    /\ pc' = "done"
    /\ UNCHANGED <<request, kwargs, result, credentials, args>>
    /\ UNCHANGED <<opVars, regVars, cfgVars, secVars, appVars>>

PathNext ==
    \/ AioBindPathParameters
    \/ AioCallView
    \/ FinishRequest

PathSpec == PathInit /\ [][PathNext]_vars

(***************************************************************************)
(* Decorator order: a handler gets up to MaxDeclarations decorators of     *)
(* different kinds, in any order, and is built.                            *)
(***************************************************************************)
MaxDeclarations == 3

\* def view(path_arg: str, request_arg: Request), a view with two Request
\* parameters, one without a body and one with a return annotation and a
\* documented exception
OrderFunctions ==
    {[params |-> Signature(a), return_annotation |-> EmptyAnnotation, raises |-> << >>] :
        a \in {<<"str", "Request">>, <<"Request", "Request">>, <<"str">>}}
    \cup {[params |-> << >>, return_annotation |-> "OkResponse", raises |-> <<"ApiClientError">>]}

OrderDecorators ==
    {responds_with("OkResponse", 201), responds_with("OkResponse", 200),
     responds_with("ErrorResponse", 400),
     accepts("Request", <<JSON>>), accepts("OtherRequest", <<JSON>>), accepts_file(OCTET),
     tags(<<"Tag 1", "Tag 2">>), tags(<<"Tag 3">>)}

DecorateInAnyOrder ==
    /\ operations.is_none
    /\ Len(decorators) < MaxDeclarations
    /\ \E decorator \in OrderDecorators : decorators' = Append(decorators, decorator)
    /\ UNCHANGED <<function, operations, build_error>>
    /\ UNCHANGED <<reqVars, regVars, cfgVars, secVars, edgeVars, appVars>>

OrderInit ==
    /\ function \in OrderFunctions
    /\ decorators = << >>
    /\ operations = NotExtracted
    /\ build_error = NoError
    /\ app = BoundInProduction
    /\ InitRequest
    /\ InitRegistry
    /\ InitConfig
    /\ InitSecurity
    /\ InitApplication

OrderNext ==
    \/ DecorateInAnyOrder
    \/ ExtractOperations

OrderSpec == OrderInit /\ [][OrderNext]_vars

(***************************************************************************)
(* OperationWrapper.get_openapi_spec: the OpenAPI Operation object of a    *)
(* built wrapper, and the models it hands to                               *)
(* schematics_model_to_schema_object while it renders.                     *)
(***************************************************************************)
NoIgnoredParamsAttribute ==
    "AttributeError: 'IgnoreParamsDecorator' object has no attribute 'ignored_params'"

\* OperationWrapper._is_param_ignored: the loop reads decorator.ignored_params,
\* while IgnoreParamsDecorator.__init__ stores its argument as _ignored_params
\* (the field ignored_params of the model's decorator)
is_param_ignored(decs, param_name) ==
    IF find_decorators(decs, "IgnoreParamsDecorator") = << >>
    THEN Ok(FALSE)
    ELSE Raise(NoIgnoredParamsAttribute)

\* the loop over self._path_parameters
RECURSIVE render_path_parameters(_, _)
render_path_parameters(path_parameters, decs) ==
    IF path_parameters = << >>
    THEN Ok(<< >>)
    ELSE LET ignored == is_param_ignored(decs, Head(path_parameters).name)
             rest == render_path_parameters(Tail(path_parameters), decs)
         IN  IF ignored.error # NoError THEN ignored
             ELSE IF rest.error # NoError THEN rest
             ELSE IF ignored.value THEN rest
             ELSE Ok(<<[name |-> Head(path_parameters).name, in |-> "path", required |-> TRUE,
                        schema |-> [type |-> PARAMETER_TYPE_MAP(Head(path_parameters).type)]]>>
                     \o rest.value)

NoRequestBody == [content |-> {}, schema |-> NoneVal, required |-> FALSE]

\* spec["requestBody"]
render_request_body(op) ==
    IF op.request_body_parameter # NoneVal
    THEN [content |-> {op.request_body_content_types[i] : i \in DOMAIN op.request_body_content_types},
          schema |-> op.request_body_class, required |-> TRUE]
    ELSE IF op.request_body_file_type # NoneVal
         THEN [content |-> {op.request_body_file_type}, schema |-> "binary", required |-> FALSE]
         ELSE NoRequestBody

\* self._responses.items() and codes.items(): a dict of dicts is walked class
\* by class, the classes in the order of their first entry
RECURSIVE items_of_responses(_)
items_of_responses(responses) ==
    IF responses = << >>
    THEN << >>
    ELSE LET same_class(entry) == entry.response_class = Head(responses).response_class
             other_class(entry) == ~same_class(entry)
         IN  SelectSeq(responses, same_class) \o items_of_responses(SelectSeq(responses, other_class))

NoResponses == [code \in {} |-> [description |-> NoneVal, mime |-> JSON, schema |-> NoneVal]]

\* `description or response_class.__name__`, the content type and the schema
render_response(entry) ==
    [description |-> IF entry.data.description # NoneVal
                     THEN entry.data.description ELSE entry.response_class,
     mime |-> IF entry.response_class = "FileResponse"
              THEN (IF entry.data.mimetype # NoneVal THEN entry.data.mimetype ELSE OCTET)
              ELSE JSON,
     schema |-> IF entry.response_class = "FileResponse" THEN "binary" ELSE entry.response_class]

\* the loop that fills spec["responses"]: spec["responses"][str(code)] = {...}
RECURSIVE render_responses(_, _)
render_responses(items, rendered) ==
    IF items = << >>
    THEN rendered
    ELSE render_responses(
             Tail(items),
             [code \in DOMAIN rendered \cup {Head(items).code} |->
                 IF code = Head(items).code THEN render_response(Head(items)) ELSE rendered[code]])

\* the models get_openapi_spec converts, in the order it converts them
converted_models(op) ==
    LET items == items_of_responses(op.responses)
        not_a_file(entry) == entry.response_class # "FileResponse"
        converted == SelectSeq(items, not_a_file)
    IN  (IF op.request_body_parameter # NoneVal
         THEN [i \in DOMAIN op.request_body_content_types |-> op.request_body_class]
         ELSE << >>)
        \o [i \in DOMAIN converted |-> converted[i].response_class]

get_openapi_spec(f, decs, op) ==
    LET path == render_path_parameters(op.path_parameters, decs)
    IN  IF path.error # NoError
        THEN path
        ELSE Ok([tags |-> op.tags,
                 parameters |-> path.value \o openapi_query_parameters(f, op),
                 requestBody |-> render_request_body(op),
                 security |-> op.security,
                 responses |-> render_responses(items_of_responses(op.responses), NoResponses)])

(***************************************************************************)
(* The specification endpoint: FlaskApistrap._get_spec, _extract_specs and *)
(* Apistrap.to_openapi_dict.  A model without model-typed fields is        *)
(* converted to its schema and registered under its name.                  *)
(***************************************************************************)
MaxSpecRequests == 3

\* schematics_model_to_schema_object, the schema object of a model
model_schema(cls) ==
    [type |-> "object", title |-> cls, properties |-> FieldNames(cls),
     required |-> {field.name : field \in {g \in ModelFields(cls) : g.required}}]

\* the add_schema_definition calls of one rendering, in order
RECURSIVE register_models(_, _)
register_models(models, schemas) ==
    IF models = << >>
    THEN Ok(schemas)
    ELSE LET added == add_definition(schemas, Head(models), model_schema(Head(models)))
         IN  IF added.error # NoError
             THEN [error |-> added.error, value |-> schemas]
             ELSE register_models(Tail(models), added.value)

\* the URL _extract_specs hands to apispec: every <filter:name> of the rule
\* becomes {name}
openapi_url(url_rule) ==
    [prefix |-> url_rule.prefix,
     names |-> [i \in DOMAIN url_rule.parameters |-> url_rule.parameters[i].name]]

\* op.method.lower()
lower(method) ==
    CASE method = "GET" -> "get"
      [] method = "POST" -> "post"
      [] method = "PUT" -> "put"
      [] method = "DELETE" -> "delete"
      [] method = "PATCH" -> "patch"
      [] OTHER -> method

\* APISpec.path(url, {method: operation}): the operations of a path already
\* known are updated
spec_path(known, url, method, operation) ==
    {entry \in known : ~(entry.url = url /\ entry.method = method)}
    \cup {[url |-> url, method |-> method, operation |-> operation]}

\* FlaskApistrap._extract_specs, the loop over self._operations
RECURSIVE extract_specs(_, _, _)
extract_specs(ops, known, schemas) ==
    IF ops = << >>
    THEN [error |-> NoError, paths |-> known, schemas |-> schemas]
    ELSE LET spec == get_openapi_spec(function, decorators, Head(ops))
             converted == register_models(converted_models(Head(ops)), schemas)
         IN  IF spec.error # NoError
             THEN [error |-> spec.error, paths |-> known, schemas |-> schemas]
             ELSE IF converted.error # NoError
                  THEN [error |-> converted.error, paths |-> known, schemas |-> converted.value]
                  ELSE extract_specs(
                           Tail(ops),
                           spec_path(known, openapi_url(Head(ops).url_rule),
                                     lower(Head(ops).method), spec.value),
                           converted.value)

\* what a request for the specification is answered with
Document(known, schemas) == [ok |-> TRUE, error |-> NoError, paths |-> known, schemas |-> schemas]
NoDocument(error) == [ok |-> FALSE, error |-> error, paths |-> {}, schemas |-> NoDefinitions]

GetSpec ==
    /\ app.bound
    /\ config.spec_url # NoneVal
    /\ Len(served) < MaxSpecRequests
    /\ LET extracted == extract_operations
           specs == extract_specs(extracted.operations.list, paths, components.schemas)
       IN  /\ operations' = extracted.operations
           /\ build_error' = IF operations.is_none THEN extracted.error ELSE build_error
           /\ view_functions' = extracted.view_functions
           /\ IF extracted.error # NoError
              THEN /\ served' = Append(served, NoDocument(extracted.error))
                   /\ UNCHANGED <<paths, components>>
              ELSE /\ paths' = specs.paths
                   /\ components' = [components EXCEPT !.schemas = specs.schemas]
                   /\ served' = Append(served,
                                       IF specs.error # NoError
                                       THEN NoDocument(specs.error)
                                       ELSE Document(specs.paths, specs.schemas))
    /\ UNCHANGED <<function, decorators, rules, suspended, conversion>>
    /\ UNCHANGED <<definitions, registry_call, registry_error>>
    /\ UNCHANGED <<reqVars, cfgVars, secVars, edgeVars>>

(***************************************************************************)
(* The life of an application: a handler is declared under one or two URL  *)
(* rules, decorated, and then served; requests for the specification and   *)
(* requests for the handler arrive in any order.                           *)
(***************************************************************************)
\* def view(b: str = "hello") and the same with a first parameter `param`,
\* annotated int or not annotated
LifecycleFunctions ==
    {[params |-> path \o <<[name |-> "b", annotation |-> "str", default |-> DefaultOfType("str")]>>,
      return_annotation |-> EmptyAnnotation, raises |-> << >>] :
        path \in {<< >>} \cup {<<[name |-> "param", annotation |-> annotation, default |-> NoDefault]>> :
                                  annotation \in {"int", EmptyAnnotation}}}

\* @app.route("/view/<int:param>", methods=["GET", "POST"]) and two routes
\* stacked on one view; the same without the parameter
RuleSets(path) ==
    LET filtered == [i \in DOMAIN path |-> [name |-> path[i], filter |-> "int"]]
        plain == [i \in DOMAIN path |-> [name |-> path[i], filter |-> NoneVal]]
    IN  {<<[rule |-> Rule("/view", filtered), endpoint |-> "view",
            methods |-> <<"GET", "POST", "OPTIONS">>]>>,
         <<[rule |-> Rule("/view", plain), endpoint |-> "view",
            methods |-> <<"GET", "HEAD", "OPTIONS">>],
           [rule |-> Rule("/other", plain), endpoint |-> "view",
            methods |-> <<"GET", "HEAD", "OPTIONS">>]>>}

LifecycleDecorators ==
    {responds_with("OkResponse", 200), responds_with("OkResponse", 400),
     responds_with("ErrorResponse", 400), accepts_qs(<<"b">>),
     ignore_params(<<"param">>), ignore_params(<<"b">>)}

DecorateLifecycle == DecorateWith(LifecycleDecorators)

LifecycleInit ==
    /\ function \in LifecycleFunctions
    /\ decorators = << >>
    /\ operations = NotExtracted
    /\ build_error = NoError
    /\ app = BoundInProduction
    /\ InitRequest
    /\ InitRegistry
    /\ InitConfig
    /\ InitSecurity
    /\ rules \in RuleSets(SelectSeq(<<"param">>,
                                    LAMBDA name : \E i \in DOMAIN function.params :
                                                      function.params[i].name = name))
    /\ view_functions = [view |-> 0]
    /\ paths = {}
    /\ served = << >>
    /\ suspended = IdleContext
    /\ conversion = NoConversion

LifecycleNext ==
    \/ DecorateLifecycle
    \/ ExtractOperations
    \/ GetSpec
    \/ BeginRequest
    \/ SkipRequestBody
    \/ LoadQueryParameters
    \/ CallHandler
    \/ FinishRequest

LifecycleSpec == LifecycleInit /\ [][LifecycleNext]_vars

(***************************************************************************)
(* Documented exceptions: a handler whose docblock has `:raises X:`        *)
(* entries is built after the error handlers were configured.              *)
(***************************************************************************)
RaisesFunctions ==
    {[params |-> << >>, return_annotation |-> EmptyAnnotation, raises |-> raises] :
        raises \in {<< >>, <<"KeyError">>, <<"ApiClientError">>, <<"KeyError", "ApiClientError">>}}

RaisesInit ==
    /\ function \in RaisesFunctions
    /\ decorators = << >>
    /\ operations = NotExtracted
    /\ build_error = NoError
    /\ app = Unbound
    /\ InitRequest
    /\ InitRegistry
    /\ InitConfig
    /\ InitSecurity
    /\ InitApplication

RaisesNext ==
    \/ SetUseDefaultErrorHandlers
    \/ AddErrorHandler
    \/ InitApp
    \/ ExtractOperations
    \/ GetSpec

RaisesSpec == RaisesInit /\ [][RaisesNext]_vars

(***************************************************************************)
(* Concurrent requests: two worker threads serve requests for one built    *)
(* operation.  The descriptor and the extension are shared; flask.request  *)
(* and the locals of the decorated function belong to the running thread   *)
(* and are exchanged with those of the other thread on a thread switch.    *)
(***************************************************************************)
\* the context of the running thread
running ==
    [pc |-> pc, request |-> request, kwargs |-> kwargs, handler_calls |-> handler_calls,
     result |-> result, outcome |-> outcome, credentials |-> credentials,
     args |-> args, boundary |-> boundary]

\* a variant in which flask.request is one object for all threads
resume_with_global_request(context) ==
    [context EXCEPT !.request = request, !.credentials = credentials]

\* what a thread finds when it runs again: its own context
resume(context) == context

SwitchThread ==
    /\ Built
    /\ suspended # running
    /\ suspended' = running
    /\ LET resumed == resume(suspended)
       IN  /\ pc' = resumed.pc
           /\ request' = resumed.request
           /\ kwargs' = resumed.kwargs
           /\ handler_calls' = resumed.handler_calls
           /\ result' = resumed.result
           /\ outcome' = resumed.outcome
           /\ credentials' = resumed.credentials
           /\ args' = resumed.args
           /\ boundary' = resumed.boundary
    /\ UNCHANGED <<rules, view_functions, paths, served, conversion>>
    /\ UNCHANGED <<opVars, regVars, cfgVars, secVars>>

\* the declarations of the modelled handler, def view(a: Request)
ConcurrentDecorators == {security({"read"}, NoneVal), responds_with("OkResponse", 200)}

DecorateConcurrent == DecorateWith(ConcurrentDecorators)

\* the application has registered the scheme oauth with its enforcer and a
\* handler for ForbiddenRequestError
ConcurrentInit ==
    /\ function = [params |-> Signature(<<"Request">>), return_annotation |-> EmptyAnnotation,
                   raises |-> << >>]
    /\ decorators = << >>
    /\ operations = NotExtracted
    /\ build_error = NoError
    /\ app = BoundInProduction
    /\ InitRequest
    /\ InitRegistry
    /\ error_handlers = <<[exception_class |-> "ForbiddenRequestError", http_code |-> 403,
                           handler |-> "custom"]>>
    /\ use_default_error_handlers = TRUE
    /\ config = [spec_url |-> "/spec.json", ui_url |-> "/apidocs", redoc_url |-> NoneVal]
    /\ config_call = NoConfigCall
    /\ config_error = NoError
    /\ security_schemes = <<"oauth">>
    /\ default_security_scheme = NoneVal
    /\ security_enforcers = {"oauth"}
    /\ scheme_call = [scheme |-> "oauth", default |-> FALSE]
    /\ scheme_error = NoError
    /\ InitApplication

ConcurrentNext ==
    \/ DecorateConcurrent
    \/ ExtractOperations
    \/ BeginRequest
    \/ LoadRequestBody
    \/ LoadQueryParameters
    \/ CallHandler
    \/ FinishRequest
    \/ SwitchThread

ConcurrentSpec == ConcurrentInit /\ [][ConcurrentNext]_vars

(***************************************************************************)
(* schematics_model_to_schema_object on models whose fields hold other     *)
(* models.  The calls in progress are kept as a stack of frames: the model *)
(* of the call, the field _model_fields_to_schema_object_properties is at  *)
(* and the properties converted so far.  Python ends a chain of calls      *)
(* deeper than its recursion limit with a RecursionError.                  *)
(***************************************************************************)
RecursionLimit == 6

NestedModels == {"Leaf", "Parent", "Grand", "Node", "Ping", "Pong"}

ModelField(name, type, model_class) == [name |-> name, type |-> type, model_class |-> model_class]

\* class Leaf(Model): value = StringType()
\* class Parent(Model): child = ModelType(Leaf); children = ListType(ModelType(Leaf));
\*                      index = DictType(ModelType(Leaf)); count = IntType()
\* class Grand(Model): parent = ModelType(Parent); leaf = DictType(ModelType(Leaf))
\* class Node(Model): next = ModelType("Node")
\* class Ping(Model): pong = ModelType("Pong");  class Pong(Model): ping = ListType(ModelType(Ping))
fields_of(model) ==
    CASE model = "Leaf" -> <<ModelField("value", "StringType", NoneVal)>>
      [] model = "Parent" -> <<ModelField("child", "ModelType", "Leaf"),
                               ModelField("children", "ListType", "Leaf"),
                               ModelField("index", "DictType", "Leaf"),
                               ModelField("count", "IntType", NoneVal)>>
      [] model = "Grand" -> <<ModelField("parent", "ModelType", "Parent"),
                              ModelField("leaf", "DictType", "Leaf")>>
      [] model = "Node" -> <<ModelField("next", "ModelType", "Node")>>
      [] model = "Ping" -> <<ModelField("pong", "ModelType", "Pong")>>
      [] model = "Pong" -> <<ModelField("ping", "ListType", "Ping")>>

\* _get_field_type with SCHEMATICS_TYPE_TO_JSON_TYPE
get_field_type(type) == IF type = "IntType" THEN "integer" ELSE "string"

\* _field_to_schema_object for a field that holds no model
primitive_field_to_schema_object(field) ==
    [name |-> field.name, type |-> get_field_type(field.type), title |-> NoneVal, ref |-> NoneVal]

\* _model_field_to_schema_object, _model_array_to_schema_object and
\* _model_dict_to_schema_object, given what the conversion of the model returned
model_field_to_schema_object(field, ref) ==
    CASE field.type = "ModelType" ->
            [name |-> field.name, type |-> "$ref", title |-> NoneVal, ref |-> ref]
      [] field.type = "ListType" ->
            [name |-> field.name, type |-> "array", title |-> "List of", ref |-> ref]
      [] field.type = "DictType" ->
            [name |-> field.name, type |-> "object", title |-> "Dictionary of", ref |-> ref]

Frame(model) == [model |-> model, field |-> 1, properties |-> << >>]

Top == conversion.stack[Len(conversion.stack)]

\* the stack with its top frame replaced
WithTop(frame) == [conversion.stack EXCEPT ![Len(conversion.stack)] = frame]

\* a caller, the rendering of an operation for instance, converts a model
ConvertModel ==
    /\ conversion.status # "running"
    /\ \E model \in NestedModels :
         conversion' = [status |-> "running", root |-> model, stack |-> <<Frame(model)>>]
    /\ UNCHANGED <<rules, view_functions, paths, served, suspended>>
    /\ UNCHANGED <<opVars, reqVars, regVars, cfgVars, secVars, edgeVars>>

\* _model_fields_to_schema_object_properties reaches a field without a model
ConvertPrimitiveField ==
    /\ conversion.status = "running"
    /\ Top.field <= Len(fields_of(Top.model))
    /\ LET field == fields_of(Top.model)[Top.field]
       IN  /\ field.model_class = NoneVal
           /\ conversion' =
                  [conversion EXCEPT !.stack =
                      WithTop([Top EXCEPT !.field = @ + 1,
                                          !.properties =
                                              Append(@, primitive_field_to_schema_object(field))])]
    /\ UNCHANGED <<rules, view_functions, paths, served, suspended>>
    /\ UNCHANGED <<opVars, reqVars, regVars, cfgVars, secVars, edgeVars>>

\* it reaches a field that holds a model: schematics_model_to_schema_object is
\* called for the model of the field
ConvertModelField ==
    /\ conversion.status = "running"
    /\ Top.field <= Len(fields_of(Top.model))
    /\ LET field == fields_of(Top.model)[Top.field]
       IN  /\ field.model_class # NoneVal
           /\ conversion' =
                  IF Len(conversion.stack) >= RecursionLimit
                  THEN [conversion EXCEPT !.status = "RecursionError", !.stack = << >>]
                  ELSE [conversion EXCEPT !.stack = Append(@, Frame(field.model_class))]
    /\ UNCHANGED <<rules, view_functions, paths, served, suspended>>
    /\ UNCHANGED <<opVars, reqVars, regVars, cfgVars, secVars, edgeVars>>

\* the schema object of the model of the call, its fields converted
schema_of_frame(frame) ==
    [type |-> "object", title |-> frame.model, properties |-> frame.properties]

\* all fields of the model are converted: the schema is registered under the
\* model's name and the call returns the reference to its caller
ReturnSchema ==
    /\ conversion.status = "running"
    /\ Top.field > Len(fields_of(Top.model))
    /\ LET added == add_definition(components.schemas, Top.model, schema_of_frame(Top))
           callers == SubSeq(conversion.stack, 1, Len(conversion.stack) - 1)
           caller == callers[Len(callers)]
           field == fields_of(caller.model)[caller.field]
       IN  /\ registry_call' = [method |-> "add_schema_definition", name |-> Top.model,
                                schema |-> schema_of_frame(Top)]
           /\ registry_error' = added.error
           /\ IF added.error # NoError
              THEN /\ conversion' = [conversion EXCEPT !.status = "ValueError", !.stack = << >>]
                   /\ UNCHANGED components
              ELSE /\ components' = [components EXCEPT !.schemas = added.value]
                   /\ conversion' =
                          IF callers = << >>
                          THEN [conversion EXCEPT !.status = "returned", !.stack = << >>]
                          ELSE [conversion EXCEPT !.stack =
                                   [callers EXCEPT ![Len(callers)] =
                                       [caller EXCEPT
                                           !.field = @ + 1,
                                           !.properties =
                                               Append(@, model_field_to_schema_object(
                                                             field, Top.model))]]]
    /\ UNCHANGED definitions
    /\ UNCHANGED <<rules, view_functions, paths, served, suspended>>
    /\ UNCHANGED <<opVars, reqVars, cfgVars, secVars, edgeVars>>

ConversionNext ==
    \/ ConvertModel
    \/ ConvertPrimitiveField
    \/ ConvertModelField
    \/ ReturnSchema

ConversionSpec == RegistryInit /\ [][ConversionNext]_vars

(***************************************************************************)
(* Properties of the response pipeline.                                    *)
(***************************************************************************)
\* the handler has returned and its result has been post-processed
Answered == pc = "done" /\ handler_calls = 1

RaisedClass(cls) == outcome.kind = "exception" /\ outcome.exception.class = cls

\* the (class, code) pairs of the operation's response table
DeclaredPairs ==
    {<<TheOperation.responses[i].response_class, TheOperation.responses[i].code>> :
        i \in DOMAIN TheOperation.responses}

DeclaredCodes(cls) == {p[2] : p \in {q \in DeclaredPairs : q[1] = cls}}

\* C1: a handler result that is not a raw response and whose exact class is
\* not declared, or whose explicit status code is not registered for its
\* class, raises UnexpectedResponseError and no response is produced.
C1_UndeclaredPairIsUnexpected ==
    (/\ Answered
     /\ result.response.class # "Response"
     /\ \/ DeclaredCodes(result.response.class) = {}
        \/ /\ result.code # NoCode
           /\ result.code \notin DeclaredCodes(result.response.class))
    => RaisedClass("UnexpectedResponseError")

\* a declared class returned with an explicit code registered only for
\* another class or not at all
C1_Witness ==
    /\ Answered
    /\ DeclaredCodes(result.response.class) = {200}
    /\ result.code = 400
    /\ RaisedClass("UnexpectedResponseError")

\* the fields of a payload that break the rules of its model: required and unset
InvalidFieldsOf(payload) ==
    {f.name : f \in {g \in ModelFields(payload.class) :
                        g.required /\ payload.data[g.name] = PyNone}}

\* C2: a payload of a declared class returned without a status code gets the
\* class's registered code when exactly one is registered (a valid payload
\* is answered with that code; an invalid one fails validation, not the
\* code resolution) and raises InvalidResponseError for the missing status
\* code when more than one is registered.
C2_MissingCodeResolution ==
    (/\ Answered
     /\ result.response.class # "Response"
     /\ result.code = NoCode
     /\ DeclaredCodes(result.response.class) # {})
    => IF Cardinality(DeclaredCodes(result.response.class)) = 1
       THEN IF InvalidFieldsOf(result.response) = {}
            THEN /\ outcome.kind = "json"
                 /\ outcome.response = result.response
                 /\ DeclaredCodes(result.response.class) = {outcome.code}
            ELSE /\ RaisedClass("InvalidResponseError")
                 /\ outcome.exception.errors # MissingStatusCode
       ELSE /\ RaisedClass("InvalidResponseError")
            /\ outcome.exception.errors = MissingStatusCode

C2_Witness ==
    /\ Answered
    /\ result.code = NoCode
    /\ DeclaredCodes(result.response.class) = {200, 400}
    /\ RaisedClass("InvalidResponseError")

\* the status code the pipeline resolves for the result, when there is one
ResolvedPair ==
    IF result.code # NoCode
    THEN <<result.response.class, result.code>>
    ELSE <<result.response.class,
           IF Cardinality(DeclaredCodes(result.response.class)) = 1
           THEN CHOOSE c \in DeclaredCodes(result.response.class) : TRUE
           ELSE NoCode>>

\* C3: a payload is validated only once its class and resolved code are
\* accepted: with a declared (class, code) an invalid payload raises
\* InvalidResponseError carrying exactly its offending fields, and an
\* invalid payload of an undeclared class raises UnexpectedResponseError.
C3_ValidationComesLast ==
    (/\ Answered
     /\ result.response.class # "Response"
     /\ InvalidFieldsOf(result.response) # {})
    => /\ ResolvedPair \in DeclaredPairs =>
              /\ RaisedClass("InvalidResponseError")
              /\ DOMAIN outcome.exception.errors = InvalidFieldsOf(result.response)
       /\ DeclaredCodes(result.response.class) = {} =>
              RaisedClass("UnexpectedResponseError")
       /\ RaisedClass("InvalidResponseError") /\ outcome.exception.errors # MissingStatusCode
              => ResolvedPair \in DeclaredPairs

\* an invalid payload of an undeclared class, while other responses are declared
C3_Witness ==
    /\ Answered
    /\ DeclaredPairs # {}
    /\ DeclaredCodes(result.response.class) = {}
    /\ InvalidFieldsOf(result.response) # {}
    /\ RaisedClass("UnexpectedResponseError")

\* C4: a raw response comes back as the handler returned it, whatever the
\* operation declares: nothing is raised, the response table is not
\* consulted and the response object is the one returned.
C4_RawPassthrough ==
    (Answered /\ result.response.class = "Response")
    => /\ outcome.kind = "raw"
       /\ outcome.response = result.response
       /\ outcome.code = IF result.code = NoCode THEN 200 ELSE result.code

\* a raw response returned with a code that no declared response registers
C4_Witness ==
    /\ Answered
    /\ result.response.class = "Response"
    /\ DeclaredPairs # {}
    /\ result.code = 400
    /\ <<"OkResponse", 400>> \notin DeclaredPairs
    /\ <<"ErrorResponse", 400>> \notin DeclaredPairs
    /\ outcome.kind = "raw"

(***************************************************************************)
(* Properties of request body loading.                                     *)
(***************************************************************************)
\* the wrapper has read the request and got a field set out of its body
BodyParsed ==
    /\ request # NoRequest
    /\ request.content_type \in {JSON, FORM, MULTIPART}
    /\ request.body.kind = "object"

\* the Python type a field holds
NativeType(field_type) == IF field_type = "IntType" THEN "int" ELSE "str"

\* a value a field of that type cannot be made of
IllTyped(field_type, value) ==
    field_type = "IntType" /\ value.type # "int" /\ value.repr \notin IntLiterals

\* the fields by which a primitive body violates model cls: unknown fields,
\* missing required fields, ill-typed fields
OffendingFields(cls, fields) ==
    {k \in DOMAIN fields : \A f \in ModelFields(cls) : f.name # k}
    \cup {f.name : f \in {g \in ModelFields(cls) : g.required /\ g.name \notin DOMAIN fields}}
    \cup {f.name : f \in {g \in ModelFields(cls) :
                             g.name \in DOMAIN fields /\ IllTyped(g.type, fields[g.name])}}

AcceptsDeclared == find_decorators(decorators, "AcceptsDecorator")

\* C5: when the body of a request to a body-accepting operation satisfies
\* the model, the handler runs with its body parameter (and nothing else)
\* bound to an instance of the declared request class holding the body's
\* values as values of the fields' types; when the body violates the model,
\* InvalidFieldsError is raised with exactly the offending fields and the
\* handler does not run.
C5_BodyInjection ==
    BodyParsed =>
        LET cls == TheOperation.request_body_class
            parameter == TheOperation.request_body_parameter
            fields == request.body.fields
        IN  IF OffendingFields(cls, fields) = {}
            THEN /\ pc \in {"query", "call"} \/ Answered
                 /\ DOMAIN kwargs = {parameter}
                 /\ kwargs[parameter].class = cls
                 /\ \A i \in DOMAIN AcceptsDeclared : AcceptsDeclared[i].request_class = cls
                 /\ \A f \in ModelFields(cls) :
                        IF f.name \in DOMAIN fields
                        THEN /\ kwargs[parameter].data[f.name].type = NativeType(f.type)
                             /\ kwargs[parameter].data[f.name].repr = fields[f.name].repr
                        ELSE kwargs[parameter].data[f.name] = PyNone
            ELSE /\ pc = "done"
                 /\ handler_calls = 0
                 /\ RaisedClass("InvalidFieldsError")
                 /\ DOMAIN outcome.exception.errors = OffendingFields(cls, fields)

\* a body without int_field is refused before the handler runs
C5_Witness ==
    /\ BodyParsed
    /\ TheOperation.request_body_class = "Request"
    /\ DOMAIN request.body.fields = {"string_field"}
    /\ RaisedClass("InvalidFieldsError")
    /\ "int_field" \in DOMAIN outcome.exception.errors
    /\ handler_calls = 0

Range(seq) == {seq[i] : i \in DOMAIN seq}

\* C6: a request whose content type is not among the mimetypes declared for
\* the operation's request body is refused with UnsupportedMediaTypeError
\* and the handler does not run.
C6_UndeclaredContentTypeRefused ==
    (/\ request # NoRequest
     /\ request.content_type \notin Range(TheOperation.request_body_content_types))
    => /\ pc = "done"
       /\ handler_calls = 0
       /\ RaisedClass("UnsupportedMediaTypeError")

(***************************************************************************)
(* Properties of the component registry.                                   *)
(***************************************************************************)
SectionOf(method, comps, defs) ==
    CASE method = "add_response_definition" -> comps.responses
      [] method = "Swagger.add_definition" -> defs
      [] OTHER -> comps.schemas

KeepsDefinitions(before, after) ==
    \A n \in DOMAIN before : n \in DOMAIN after /\ after[n] = before[n]

C7_RegistrationStep ==
    LET call == registry_call'
        before == SectionOf(call.method, components, definitions)
        after == SectionOf(call.method, components', definitions')
    IN  /\ IF call.name \in DOMAIN before
           THEN /\ UNCHANGED <<components, definitions>>
                /\ registry_error' =
                       IF before[call.name] = call.schema THEN NoError
                       ELSE ConflictingDefinitions
           ELSE /\ registry_error' = NoError
                /\ after[call.name] = call.schema
        /\ KeepsDefinitions(components.schemas, components'.schemas)
        /\ KeepsDefinitions(components.responses, components'.responses)
        /\ KeepsDefinitions(definitions, definitions')

\* C7: registering a name that is present with an equal body raises nothing
\* and changes nothing, registering it with another body raises ValueError
\* (and changes nothing), a new name is stored; so a name keeps the body it
\* was first registered with.
C7_IdempotentRegistration == [][C7_RegistrationStep]_vars

\* a conflicting registration was refused and the first body is still there
C7_Witness ==
    /\ registry_error = ConflictingDefinitions
    /\ registry_call.method = "add_request_definition"
    /\ registry_call.name \in DOMAIN components.schemas
    /\ components.schemas[registry_call.name] # registry_call.schema

(***************************************************************************)
(* Properties of the operation build.                                      *)
(***************************************************************************)
Extracted == ~operations.is_none

RespondsWithDeclared == find_decorators(decorators, "RespondsWithDecorator")

\* the (class, code) pairs the three sources contribute, in order: the
\* return annotation, the responds_with decorators, the documented raises
ContributedPairs ==
    (IF function.return_annotation = EmptyAnnotation THEN << >>
     ELSE << <<function.return_annotation, 200>> >>)
    \o [i \in DOMAIN RespondsWithDeclared |->
           <<RespondsWithDeclared[i].response_class, RespondsWithDeclared[i].code>>]
    \o [i \in DOMAIN get_responses_from_raises(function.raises) |->
           <<"ErrorResponse", get_responses_from_raises(function.raises)[i].code>>]

Times(pair, pairs) == Cardinality({i \in DOMAIN pairs : pairs[i] = pair})

\* C8: the build fails when a (class, code) pair is contributed more than
\* once by the three sources together; a built response table holds exactly
\* the contributed pairs, each of them contributed once and stored once.
C8_DuplicateResponseFailsBuild ==
    Extracted =>
        /\ (\E i \in DOMAIN ContributedPairs : Times(ContributedPairs[i], ContributedPairs) > 1)
               => ~Built /\ build_error # NoError
        /\ Built =>
               /\ DeclaredPairs = Range(ContributedPairs)
               /\ \A pair \in DeclaredPairs :
                      /\ Times(pair, ContributedPairs) = 1
                      /\ Cardinality({i \in DOMAIN TheOperation.responses :
                             /\ TheOperation.responses[i].response_class = pair[1]
                             /\ TheOperation.responses[i].code = pair[2]}) = 1

\* the return annotation and a decorator declare the same response
C8_Witness ==
    /\ build_error = DuplicateResponseError
    /\ function.return_annotation = "OkResponse"
    /\ decorators = <<responds_with("OkResponse", 200)>>

AllResolve == \A i \in DOMAIN function.params : function.params[i].annotation # NoneVal

\* the parameters that may receive the request body
Candidates ==
    {i \in DOMAIN function.params :
        IF AcceptsDeclared # << >>
        THEN function.params[i].annotation = AcceptsDeclared[1].request_class
        ELSE function.params[i].annotation \in ModelClasses}

BodyParameterErrors ==
    {MultipleAcceptsError, MultipleCandidatesError, MultipleParametersError,
     NoBodyParameterError, NoneAnnotationError}

\* C9: with at most one accepts declaration, more than one candidate fails
\* the build, no candidate under an accepts declaration fails the build; when
\* the parameter types resolve, a single candidate becomes the body
\* parameter with its type as the request class, and no candidate without a
\* declaration leaves the operation without a request body, neither of them
\* raising an error about the body parameter.
C9_BodyParameterResolution ==
    (Extracted /\ Len(AcceptsDeclared) <= 1) =>
        /\ Cardinality(Candidates) > 1 => ~Built /\ build_error # NoError
        /\ (Candidates = {} /\ AcceptsDeclared # << >>) => ~Built /\ build_error # NoError
        /\ (Cardinality(Candidates) = 1 /\ AllResolve) =>
               /\ build_error \notin BodyParameterErrors
               /\ Built =>
                      \E i \in Candidates :
                          /\ TheOperation.request_body_parameter = function.params[i].name
                          /\ TheOperation.request_body_class = function.params[i].annotation
        /\ (Candidates = {} /\ AcceptsDeclared = << >> /\ AllResolve) =>
               /\ build_error \notin BodyParameterErrors
               /\ Built =>
                      /\ TheOperation.request_body_parameter = NoneVal
                      /\ TheOperation.request_body_class = NoneVal

\* of two model parameters the one that accepts names is chosen
C9_Witness ==
    /\ Built
    /\ decorators = <<accepts("Request", <<JSON>>)>>
    /\ Len(function.params) = 2
    /\ function.params[1].annotation = "OtherRequest"
    /\ function.params[2].annotation = "Request"
    /\ TheOperation.request_body_parameter = "b"

AcceptsFileDeclared == find_decorators(decorators, "AcceptsFileDecorator")

\* C10: no built operation has a body parameter and a file type; the build
\* fails when a handler with a body parameter carries an accepts_file
\* declaration, with more than one accepts declaration and with more than
\* one accepts_file declaration.
C10_BodyAndFileExclusive ==
    Extracted =>
        /\ Built => ~(/\ TheOperation.request_body_parameter # NoneVal
                      /\ TheOperation.request_body_file_type # NoneVal)
        /\ Len(AcceptsDeclared) > 1 => ~Built /\ build_error # NoError
        /\ Len(AcceptsFileDeclared) > 1 => ~Built /\ build_error # NoError
        /\ (Candidates # {} /\ AcceptsFileDeclared # << >>) => ~Built /\ build_error # NoError

\* a model parameter together with accepts_file
C10_Witness ==
    /\ Extracted
    /\ build_error = FileAndModelError
    /\ Candidates # {}
    /\ Len(AcceptsFileDeclared) = 1

(***************************************************************************)
(* Properties of the error handler table and of the boundary.              *)
(***************************************************************************)
\* a request's view has raised and Flask has dealt with the exception
Failed == pc = "done" /\ outcome.kind = "exception" /\ boundary # NoBoundary

\* the entries in the order in which they are looked at
HandlerEntries ==
    error_handlers \o (IF use_default_error_handlers THEN default_error_handlers ELSE << >>)

MatchingEntries(class) ==
    {i \in DOMAIN HandlerEntries : issubclass(class, HandlerEntries[i].exception_class)}

FirstEntry(class) ==
    HandlerEntries[CHOOSE i \in MatchingEntries(class) : \A j \in MatchingEntries(class) : i <= j]

\* C11: the entry an exception class resolves to is the first one, custom
\* entries in registration order and then (unless disabled) the default
\* entries in their order, whose class it is a subclass of, and none when
\* there is no such entry; a failed request is answered by that entry.
C11_FirstMatchInRegistrationOrder ==
    /\ \A class \in ExceptionClasses :
           exception_handler(class) =
               IF MatchingEntries(class) = {} THEN NoHandler ELSE FirstEntry(class)
    /\ (Failed /\ MatchingEntries(outcome.exception.class) # {}) =>
           /\ boundary.kind = "response"
           /\ boundary.code = IF FirstEntry(outcome.exception.class).http_code = CodeOfClass
                              THEN HttpExceptionCode(outcome.exception.class)
                              ELSE FirstEntry(outcome.exception.class).http_code

\* a custom entry for ApiClientError, registered before one for its subclass
\* UnsupportedMediaTypeError, answers an UnsupportedMediaTypeError
C11_Witness ==
    /\ Failed
    /\ use_default_error_handlers
    /\ Len(error_handlers) = 2
    /\ error_handlers[1] = [exception_class |-> "ApiClientError", http_code |-> 403,
                            handler |-> "custom"]
    /\ error_handlers[2] = [exception_class |-> "UnsupportedMediaTypeError", http_code |-> 418,
                            handler |-> "custom"]
    /\ outcome.exception.class = "UnsupportedMediaTypeError"
    /\ boundary.kind = "response"
    /\ boundary.code = 403

DefaultsOnly == use_default_error_handlers /\ error_handlers = << >>

\* the status codes the claim lists
ListedCode(class) ==
    CASE class \in {"ApiClientError", "InvalidFieldsError"} -> 400
      [] class = "UnsupportedMediaTypeError" -> 415
      [] OTHER -> 500

\* C12 as stated: with the default handlers only, ApiClientError and
\* InvalidFieldsError are answered with 400, UnsupportedMediaTypeError with
\* 415, the ApiServerError family and any other exception with 500.
C12_DefaultCodesAsStated ==
    (Failed /\ DefaultsOnly) =>
        /\ boundary.kind = "response"
        /\ boundary.code = ListedCode(outcome.exception.class)

\* C12: with the default handlers only, ApiClientError and
\* InvalidFieldsError are answered with 400, UnsupportedMediaTypeError with
\* 415, the ApiServerError family with 500, an HTTP exception of the
\* framework with the code of its class, and any other exception with 500.
C12_DefaultCodes ==
    (Failed /\ DefaultsOnly) =>
        /\ boundary.kind = "response"
        /\ boundary.code = IF outcome.exception.class = "NotFound" THEN 404
                           ELSE ListedCode(outcome.exception.class)

\* an UnsupportedMediaTypeError is answered with 415, not with the 400 of
\* its base class
C12_Witness ==
    /\ Failed
    /\ DefaultsOnly
    /\ outcome.exception.class = "UnsupportedMediaTypeError"
    /\ boundary.kind = "response"
    /\ boundary.code = 415

\* C13: with the default handlers enabled, whatever custom handlers are
\* registered, every exception class resolves to an entry and a failed
\* request is answered with a response, never with an exception.
C13_AlwaysSomeResponse ==
    use_default_error_handlers =>
        /\ \A class \in ExceptionClasses : exception_handler(class) # NoHandler
        /\ \A exception \in RaisedExceptions : ~exception_to_response(exception).is_none
        /\ Failed => boundary.kind = "response"

\* an exception no custom entry matches is answered by the catch-all
C13_Witness ==
    /\ Failed
    /\ use_default_error_handlers
    /\ error_handlers # << >>
    /\ outcome.exception.class = "RuntimeError"
    /\ \A i \in DOMAIN error_handlers :
           ~issubclass("RuntimeError", error_handlers[i].exception_class)
    /\ boundary.kind = "response"
    /\ boundary.code = 500

\* C14: with the default handlers disabled, an exception of the view (not
\* an HTTP exception of the framework) that no custom entry matches reaches
\* the caller as that very exception.
C14_UnhandledPropagatesUnchanged ==
    (/\ Failed
     /\ ~use_default_error_handlers
     /\ ~issubclass(outcome.exception.class, "HTTPException")
     /\ \A i \in DOMAIN error_handlers :
            ~issubclass(outcome.exception.class, error_handlers[i].exception_class))
    => /\ boundary.kind = "exception"
       /\ boundary.exception = outcome.exception

\* the exception is answered by a default entry leading to internal_error_handler
ServerClassError ==
    /\ Failed
    /\ MatchingEntries(outcome.exception.class) # {}
    /\ FirstEntry(outcome.exception.class).handler = "internal_error_handler"

\* C15: what the default handlers answer to a server-class error: outside
\* debug mode the constant message without debug data, whatever the class
\* and the message of the exception are; in debug mode the message of the
\* exception with its type, message and traceback.
C15_ServerErrorsAreOpaque ==
    /\ \A class \in RaisedClasses :
           (use_default_error_handlers /\ ~issubclass(class, "ApiClientError")
                /\ ~issubclass(class, "HTTPException")
                /\ \A i \in DOMAIN error_handlers :
                       ~issubclass(class, error_handlers[i].exception_class))
           => exception_handler(class).handler = "internal_error_handler"
    /\ ServerClassError =>
           /\ boundary.kind = "response"
           /\ boundary.code = 500
           /\ IF app.debug
              THEN /\ boundary.body.message = outcome.exception.message
                   /\ boundary.body.debug_data.exception_type = outcome.exception.class
                   /\ boundary.body.debug_data.exception_message = outcome.exception.message
                   /\ boundary.body.debug_data.traceback # NoneVal
              ELSE boundary.body = [message |-> "Internal server error",
                                    debug_data |-> NoDebugData]

\* a RuntimeError in production
C15_Witness ==
    /\ ServerClassError
    /\ ~app.debug
    /\ outcome.exception = ExceptionOf("RuntimeError", "Runtime error occurred")
    /\ boundary.body.message = "Internal server error"

\* what a configuration call does to the value it is about
ConfigStep ==
    LET call == config_call'
    IN  IF app.bound
        THEN /\ config_error' = ApistrapExtensionError
             /\ UNCHANGED <<config, use_default_error_handlers, error_handlers>>
        ELSE /\ config_error' = NoError
             /\ CASE call.method = "spec_url" ->
                       /\ config'.spec_url = call.value.url
                       /\ config'.ui_url = config.ui_url /\ config'.redoc_url = config.redoc_url
                       /\ UNCHANGED <<use_default_error_handlers, error_handlers>>
                  [] call.method = "ui_url" ->
                       /\ config'.ui_url = (IF call.value.url = "/ui/" THEN "/ui" ELSE call.value.url)
                       /\ config'.spec_url = config.spec_url
                       /\ config'.redoc_url = config.redoc_url
                       /\ UNCHANGED <<use_default_error_handlers, error_handlers>>
                  [] call.method = "redoc_url" ->
                       /\ config'.redoc_url =
                              (IF call.value.url = "/redoc/" THEN "/redoc" ELSE call.value.url)
                       /\ config'.spec_url = config.spec_url /\ config'.ui_url = config.ui_url
                       /\ UNCHANGED <<use_default_error_handlers, error_handlers>>
                  [] call.method = "use_default_error_handlers" ->
                       /\ use_default_error_handlers' = call.value.flag
                       /\ UNCHANGED <<config, error_handlers>>
                  [] call.method = "add_error_handler" ->
                       /\ error_handlers' = error_handlers \o <<call.value.entry>>
                       /\ UNCHANGED <<config, use_default_error_handlers>>

\* C16: a configuration call (every step but the binding itself) made
\* after the binding raises ApistrapExtensionError and changes neither the
\* configured values nor the error handlers; made before the binding it
\* raises nothing and sets the value.
C16_ConfigurationFrozenAfterBinding == [][app' = app => ConfigStep]_vars

\* add_error_handler was refused after init_app
C16_Witness ==
    /\ app.bound
    /\ config_call.method = "add_error_handler"
    /\ config_error = ApistrapExtensionError
    /\ error_handlers = << >>

(***************************************************************************)
(* Properties of security schemes and of their enforcement.                *)
(***************************************************************************)
\* the scheme a security declaration stands for when the operation is built
\* (a one-element set), or the empty set
BuildScheme(decorator) ==
    IF decorator.security_scheme # NoneVal THEN {decorator.security_scheme}
    ELSE IF default_security_scheme # NoneVal THEN {default_security_scheme}
    ELSE IF Cardinality(Range(security_schemes)) = 1 THEN Range(security_schemes)
    ELSE {}

\* the build of this step looked at the security declarations
BuildStep == operations.is_none /\ ~operations'.is_none

\* C17: when an operation is built, each security declaration stands for
\* the scheme named on it, else the default scheme, else the only
\* registered scheme; the requirements of the operation are these schemes
\* with the declared scopes, in order.  When some declaration stands for no
\* scheme (none registered, or several and neither a default nor a name)
\* the build fails with an error and yields no operation.
C17_SchemeResolution ==
    [][BuildStep =>
          IF \A i \in DOMAIN RequiredScopes : BuildScheme(RequiredScopes[i]) # {}
          THEN /\ build_error' = NoError
               /\ Len(operations'.list) = 1
               /\ DOMAIN operations'.list[1].security = DOMAIN RequiredScopes
               /\ \A i \in DOMAIN RequiredScopes :
                      /\ {operations'.list[1].security[i].scheme} = BuildScheme(RequiredScopes[i])
                      /\ operations'.list[1].security[i].scopes = RequiredScopes[i].scopes
          ELSE /\ build_error' = NoSchemeError
               /\ operations'.list = << >>]_vars

\* with two schemes registered, the second one as the default, a
\* declaration naming no scheme stands for the default and one naming the
\* first scheme for that scheme
C17_Witness ==
    /\ Built
    /\ Len(security_schemes) = 2
    /\ default_security_scheme = security_schemes[2]
    /\ Len(RequiredScopes) = 2
    /\ RequiredScopes[1].security_scheme = NoneVal
    /\ RequiredScopes[2].security_scheme = security_schemes[1]
    /\ TheOperation.security[1].scheme = security_schemes[2]
    /\ TheOperation.security[2].scheme = security_schemes[1]

\* C18: the default scheme, once set, never changes; it becomes set only
\* by a call with default=True, to the scheme of that call; a call with
\* default=True made while a default is set raises ApistrapExtensionError.
C18_SingleDefaultScheme ==
    [][/\ default_security_scheme # NoneVal =>
              default_security_scheme' = default_security_scheme
       /\ (default_security_scheme = NoneVal /\ default_security_scheme' # NoneVal) =>
              /\ scheme_call'.default
              /\ scheme_call'.scheme = default_security_scheme'
              /\ scheme_error' = NoError
       /\ (security_schemes' # security_schemes /\ scheme_call'.default
               /\ default_security_scheme # NoneVal) =>
              scheme_error' = ApistrapExtensionError]_vars

\* a second default was refused and the first one is still the default
C18_Witness ==
    /\ Len(security_schemes) = 2
    /\ scheme_call = [scheme |-> security_schemes[2], default |-> TRUE]
    /\ scheme_error = ApistrapExtensionError
    /\ default_security_scheme = security_schemes[1]

\* the declarations can be resolved when a request arrives
ResolvesAtRunTime ==
    /\ Len(security_schemes) > 0
    /\ \/ Len(security_schemes) = 1
       \/ default_security_scheme # NoneVal
       \/ \A i \in DOMAIN RequiredScopes : RequiredScopes[i].security_scheme # NoneVal

\* the scheme whose enforcer is called for a declaration
RunTimeScheme(decorator) ==
    IF decorator.security_scheme # NoneVal THEN decorator.security_scheme
    ELSE IF default_security_scheme # NoneVal THEN default_security_scheme
    ELSE security_schemes[1]

\* the enforcer of the declaration accepts the caller
Accepted(decorator) ==
    /\ RunTimeScheme(decorator) \in security_enforcers
    /\ decorator.scopes \subseteq credentials[RunTimeScheme(decorator)]

\* what the enforcer of a declaration that does not accept raises
Refusal(decorator) ==
    IF RunTimeScheme(decorator) \in security_enforcers
    THEN ExceptionOf("ForbiddenRequestError", RunTimeScheme(decorator))
    ELSE ExceptionOf("KeyError", RunTimeScheme(decorator))

InRequest == pc # "idle"

\* the request was stopped before the body loader and the handler
StoppedBy(exception) ==
    /\ pc = "done"
    /\ outcome = Raised(exception)
    /\ request = NoRequest
    /\ kwargs = NoKwargs
    /\ handler_calls = 0
    /\ result = NoResult

\* the request got past the security check
Proceeded ==
    \/ pc \in {"load_body", "query", "call"}
    \/ pc = "done" /\ (request # NoRequest \/ handler_calls = 1)

C19_RefusedWitness ==
    /\ Built
    /\ accepts_body(TheOperation)
    /\ Len(RequiredScopes) = 2
    /\ StoppedBy(ExceptionOf("ForbiddenRequestError", "apikey"))
    /\ boundary.code = 403

(***************************************************************************)
(* Properties of query parameters.                                         *)
(***************************************************************************)
DeclaredQuery == TheOperation.query_parameters

DefaultOf(name) == function.params[ParamIndex(function, name)].default

\* the query string has been looked at
QueryLoaded == Built /\ pc \in {"call", "done"} /\ DeclaredQuery # << >>

RequiredOmitted ==
    \E i \in DOMAIN DeclaredQuery :
        DeclaredQuery[i].name \notin DOMAIN args /\ DefaultOf(DeclaredQuery[i].name) = NoDefault

HandlerReached == pc = "call" \/ handler_calls = 1

\* the handler gets the supplied values in the declared types and its own
\* defaults for the optional parameters left out
PassedConverted ==
    \A i \in DOMAIN DeclaredQuery :
        LET name == DeclaredQuery[i].name
        IN  IF name \in DOMAIN args
            THEN /\ name \in DOMAIN kwargs
                 /\ kwargs[name] = [type |-> function.params[ParamIndex(function, name)].annotation,
                                    repr |-> args[name]]
            ELSE name \notin DOMAIN kwargs

SpecAgrees ==
    Built =>
        LET rendered == openapi_query_parameters(function, TheOperation)
        IN  /\ DOMAIN rendered = DOMAIN DeclaredQuery
            /\ \A i \in DOMAIN DeclaredQuery :
                   /\ rendered[i].name = DeclaredQuery[i].name
                   /\ rendered[i].required = (DefaultOf(DeclaredQuery[i].name) = NoDefault)

\* C20: the specification marks a declared query parameter required
\* exactly when the handler parameter has no default, and once the query
\* string of a request has been looked at: if a required parameter was left
\* out the request has ended with ApiClientError and the handler was not
\* called; otherwise the handler is reached, with every supplied value
\* converted to the declared type and no value for the optional parameters
\* left out.
C20_QueryParametersAgree ==
    /\ SpecAgrees
    /\ QueryLoaded =>
           IF RequiredOmitted
           THEN /\ pc = "done"
                /\ handler_calls = 0
                /\ outcome.kind = "exception"
                /\ outcome.exception.class = "ApiClientError"
           ELSE HandlerReached /\ PassedConverted

\* no integer parameter was given a text that is not a number
Convertible ==
    \A i \in DOMAIN DeclaredQuery :
        (DeclaredQuery[i].type = "int" /\ DeclaredQuery[i].name \in DOMAIN args)
            => args[DeclaredQuery[i].name] \in IntLiterals

\* the same agreement for requests whose values can be converted
QueryParametersAgreeWhenConvertible ==
    /\ SpecAgrees
    /\ (QueryLoaded /\ Convertible) =>
           IF RequiredOmitted
           THEN /\ pc = "done"
                /\ handler_calls = 0
                /\ outcome.kind = "exception"
                /\ outcome.exception.class = "ApiClientError"
           ELSE HandlerReached /\ PassedConverted

\* an integer parameter was given a text that is not a number: the
\* ValueError of int() ends the request with 500
InconvertibleValue ==
    /\ QueryLoaded
    /\ ~Convertible
    /\ ~RequiredOmitted
    /\ pc = "done"
    /\ handler_calls = 0
    /\ outcome.exception.class = "ValueError"
    /\ boundary.code = 500

\* the optional integer parameter was left out, the required one supplied
OptionalOmitted ==
    /\ QueryLoaded
    /\ handler_calls = 1
    /\ Len(DeclaredQuery) = 2
    /\ DOMAIN args = {"a"}
    /\ DOMAIN kwargs = {"a"}
    /\ DefaultOf("b") = IntValue("999")

(***************************************************************************)
(* Properties of path parameters (AioHTTP).                                *)
(***************************************************************************)
AnnotationOf(name) == function.params[ParamIndex(function, name)].annotation

PathBound == pc \in {"call", "done"} /\ DOMAIN args = {"a", "b"}

\* every value given for an int parameter is a number
ValidPath == \A name \in DOMAIN args : AnnotationOf(name) = "int" => args[name] \in IntLiterals

\* C21: once the path parameters of a request have been looked at: when
\* every value for an int parameter is a number the handler is reached
\* with each value in its annotated type (str when there is no annotation);
\* otherwise the handler is not called and the request is answered with a
\* client error (4xx).
C21_PathParametersCoerced ==
    PathBound =>
        IF ValidPath
        THEN /\ pc = "call" \/ handler_calls = 1
             /\ \A name \in {"a", "b"} :
                    kwargs[name] = [type |-> IF AnnotationOf(name) = "int" THEN "int" ELSE "str",
                                    repr |-> args[name]]
        ELSE /\ pc = "done"
             /\ handler_calls = 0
             /\ boundary.kind = "response"
             /\ boundary.code \in 400..499

\* the same with what the middleware does answer to a value that is not a
\* number: the ValueError of int() is a server error
PathParametersCoercedOrServerError ==
    PathBound =>
        IF ValidPath
        THEN /\ pc = "call" \/ handler_calls = 1
             /\ \A name \in {"a", "b"} :
                    kwargs[name] = [type |-> IF AnnotationOf(name) = "int" THEN "int" ELSE "str",
                                    repr |-> args[name]]
        ELSE /\ pc = "done"
             /\ handler_calls = 0
             /\ outcome.exception.class = "ValueError"
             /\ use_default_error_handlers => boundary.kind = "response" /\ boundary.code = 500

\* /x/foobar for view(a: str, b: int)
InvalidPathValue ==
    /\ PathBound
    /\ AnnotationOf("a") = "str" /\ AnnotationOf("b") = "int"
    /\ args = [n \in {"a", "b"} |-> IF n = "a" THEN "x" ELSE "foobar"]
    /\ boundary.code = 500

(***************************************************************************)
(* Properties of the decorator order.                                      *)
(***************************************************************************)
Reorderings(n) == {f \in [1..n -> 1..n] : \A i, j \in 1..n : f[i] = f[j] => i = j}

Permuted(seq, f) == [i \in 1..Len(seq) |-> seq[f[i]]]

\* what the build of the handler with its decorators in another order gives
Rebuilt(f) == process_metadata(function, Permuted(decorators, f))

\* C22: once the handler is built, the build with its decorators in any
\* other order fails when this one failed, and otherwise yields the same
\* set of responses, the same request body parameter and class, and the
\* same set of tags.
C22_OrderIndependent ==
    ~operations.is_none =>
        \A f \in Reorderings(Len(decorators)) :
            IF build_error # NoError
            THEN Rebuilt(f).error # NoError
            ELSE /\ Rebuilt(f).error = NoError
                 /\ Range(Rebuilt(f).value.responses) = Range(TheOperation.responses)
                 /\ Rebuilt(f).value.request_body_parameter = TheOperation.request_body_parameter
                 /\ Rebuilt(f).value.request_body_class = TheOperation.request_body_class
                 /\ Range(Rebuilt(f).value.tags) = Range(TheOperation.tags)

\* the handler of the test, its body parameter found by annotation, with
\* two tags decorators and a response decorator
C22_Witness ==
    /\ Built
    /\ Len(decorators) = 3
    /\ decorators[1].kind = "TagsDecorator"
    /\ decorators[2].kind = "TagsDecorator"
    /\ decorators[3].kind = "RespondsWithDecorator"
    /\ decorators[1] # decorators[2]
    /\ TheOperation.request_body_parameter = "b"
    /\ Len(TheOperation.tags) = 3
    /\ TheOperation.responses # << >>

(***************************************************************************)
(* Properties of the specification endpoint and of the extraction.         *)
(***************************************************************************)
\* the documents served so far are all the same
SameDocuments(documents) ==
    \A i, j \in DOMAIN documents :
        documents[i].ok /\ documents[j].ok => documents[i] = documents[j]

ContributedBy(exception_class) ==
    {i \in DOMAIN TheOperation.responses :
        /\ TheOperation.responses[i].response_class = "ErrorResponse"
        /\ TheOperation.responses[i].data.description = exception_class}

Documented(exception_class) == function.raises # << >> /\
    \E i \in DOMAIN function.raises : function.raises[i] = exception_class

\* C24: a documented raises entry becomes an ErrorResponse response exactly
\* when its exception type is found in the active error registry, keyed at
\* the code the registry maps the type to; an entry whose type matches no
\* handler of the registry contributes no response.
C24_RaisesDocumentedWhenRegistered ==
    Built =>
        \A exception_class \in ExceptionClasses :
            Documented(exception_class) =>
                LET handler == exception_handler(exception_class)
                IN  IF handler = NoHandler
                    THEN ContributedBy(exception_class) = {}
                    ELSE \E i \in ContributedBy(exception_class) :
                             TheOperation.responses[i].code = get_code(handler, exception_class)

\* the part of C24 that holds: an entry whose type a handler of the registry
\* matches is documented at that handler's code
RaisesDocumentedAtRegistryCode ==
    Built =>
        \A exception_class \in ExceptionClasses :
            Documented(exception_class) /\ exception_handler(exception_class) # NoHandler =>
                \E i \in ContributedBy(exception_class) :
                    TheOperation.responses[i].code =
                        get_code(exception_handler(exception_class), exception_class)

\* a documented exception no handler matches is in the table at 500, and the
\* document served has it
UnmatchedRaisesDocumented ==
    /\ Built
    /\ \E exception_class \in ExceptionClasses :
         /\ Documented(exception_class)
         /\ exception_handler(exception_class) = NoHandler
         /\ \E i \in ContributedBy(exception_class) : TheOperation.responses[i].code = 500
    /\ served # << >>
    /\ \E entry \in served[1].paths : 500 \in DOMAIN entry.operation.responses

(***************************************************************************)
(* Properties of the rendered parameters.                                  *)
(***************************************************************************)
\* the names the handler's ignore_params decorators list
IgnoredParams ==
    LET found == find_decorators(decorators, "IgnoreParamsDecorator")
    IN  UNION {{found[i].ignored_params[j] : j \in DOMAIN found[i].ignored_params} :
                  i \in DOMAIN found}

RenderedParams(operation) ==
    {operation.parameters[i].name : i \in DOMAIN operation.parameters}

\* C25: a parameter named in an IgnoreParams declaration never appears among
\* the rendered parameters of the operation, be it a path parameter or a
\* query parameter.
C25_IgnoredParametersNotRendered ==
    \A entry \in paths : RenderedParams(entry.operation) \cap IgnoredParams = {}

\* an ignored query parameter is in the document served, and the handler has
\* been passed its value
IgnoredQueryParameterRendered ==
    /\ "b" \in IgnoredParams
    /\ served # << >>
    /\ served[1].ok
    /\ \E entry \in served[1].paths : "b" \in RenderedParams(entry.operation)
    /\ pc = "call"
    /\ "b" \in DOMAIN kwargs

\* the handler has a path parameter and an ignore_params decorator: the
\* request for the specification raises
IgnoredPathParameterFailsRendering ==
    /\ "param" \in IgnoredParams
    /\ Built
    /\ TheOperation.path_parameters # << >>
    /\ served # << >>
    /\ ~served[1].ok
    /\ served[1].error = NoIgnoredParamsAttribute

(***************************************************************************)
(* Properties of concurrent requests.                                      *)
(***************************************************************************)
\* what the decorated function hands back for the inputs of one request when
\* no other request is served: the steps of the wrapper in their order
OutcomeAlone(context) ==
    LET enforced == enforce_security(RequiredScopes, context.credentials, NoException)
        data == load_request_body_primitive(context.request)
        loaded == load_request_body(TheOperation, data.value)
        body == IF accepts_body(TheOperation) THEN loaded.value ELSE NoKwargs
        query == load_query_parameters(function, TheOperation.query_parameters,
                                       context.args, body)
        processed == postprocess_response(TheOperation, context.result)
    IN  IF enforced.raised THEN Raised(enforced.exception)
        ELSE IF accepts_body(TheOperation) /\ data.raised THEN Raised(data.exception)
        ELSE IF accepts_body(TheOperation) /\ loaded.raised THEN Raised(loaded.exception)
        ELSE IF query.raised THEN Raised(query.exception)
        ELSE IF processed.raised THEN Raised(processed.exception)
        ELSE Responded(processed.value)

Finished(context) == context.pc = "done" => context.outcome = OutcomeAlone(context)

\* C26: whatever the interleaving of two requests on a built operation, no
\* step of a request changes the handler's declarations, the built
\* descriptors or the schema registry, and a finished request has the outcome
\* its own inputs give when it is served alone.
C26_RequestsOnlyReadTheDescriptor ==
    [][Built => /\ UNCHANGED <<function, decorators, operations, build_error>>
                /\ UNCHANGED <<components, definitions>>
                /\ Finished(running')
                /\ Finished(suspended')]_vars

\* one thread was refused by the enforcer and is suspended, the other has
\* passed the enforcer and loaded its body, and has had its response
\* post-processed
C26_Witness ==
    /\ Built
    /\ suspended.pc = "done"
    /\ suspended.outcome.kind = "exception"
    /\ suspended.credentials # credentials
    /\ pc = "done"
    /\ outcome.kind = "json"
    /\ handler_calls = 1

(***************************************************************************)
(* Properties of the two resolutions of a security declaration.            *)
(***************************************************************************)
\* the scheme _get_required_scopes yields for a declaration (a one-element
\* set), or the empty set when it raises
RequestScheme(decorator) ==
    IF \/ /\ Len(security_schemes) > 1
          /\ default_security_scheme = NoneVal
          /\ decorator.security_scheme = NoneVal
       \/ Len(security_schemes) = 0
    THEN {}
    ELSE {RunTimeScheme(decorator)}

\* C27: for every configuration of registered schemes, default scheme and
\* security declaration, the resolution made for the specification and the
\* resolution made for a request both fail or both give the same scheme, and
\* that scheme has a registered enforcer.
C27_DocumentedSchemeIsEnforced ==
    \A i \in DOMAIN RequiredScopes :
        /\ BuildScheme(RequiredScopes[i]) = RequestScheme(RequiredScopes[i])
        /\ BuildScheme(RequiredScopes[i]) \subseteq security_enforcers

\* the operation was built with a requirement for a scheme that was never
\* registered, and a request for it ends with the TypeError of
\* _get_required_scopes
DocumentedSchemeNotResolved ==
    /\ Built
    /\ TheOperation.security # << >>
    /\ TheOperation.security[1].scheme = "oauth"
    /\ security_schemes = << >>
    /\ pc = "done"
    /\ outcome = Raised(NoSchemesError)

\* the documented scheme was registered as a second default: the call was
\* refused after the scheme had been appended, no enforcer is known for it
\* and a request ends with a KeyError
DocumentedSchemeWithoutEnforcer ==
    /\ Built
    /\ TheOperation.security # << >>
    /\ \E i \in DOMAIN security_schemes : security_schemes[i] = TheOperation.security[1].scheme
    /\ TheOperation.security[1].scheme \notin security_enforcers
    /\ pc = "done"
    /\ outcome.kind = "exception"
    /\ outcome.exception.class = "KeyError"

(***************************************************************************)
(* Properties of the rendered responses.                                   *)
(***************************************************************************)
\* C28: every (response type, status code) pair of the response table, which
\* is what post-processing accepts, is documented in the rendered operation
\* under that code with the schema of that type; when two types are declared
\* for one code, neither is lost.
C28_EveryDeclaredPairDocumented ==
    Built =>
        \A entry \in paths :
            \A i \in DOMAIN TheOperation.responses :
                /\ TheOperation.responses[i].code \in DOMAIN entry.operation.responses
                /\ entry.operation.responses[TheOperation.responses[i].code].schema =
                       TheOperation.responses[i].response_class

\* OkResponse and ErrorResponse are both declared for 400; the document
\* served has one entry for 400, and the handler's OkResponse with code 400
\* has been accepted
DeclaredPairNotDocumented ==
    /\ Built
    /\ served # << >>
    /\ served[1].ok
    /\ \E entry \in served[1].paths :
         /\ 400 \in DOMAIN entry.operation.responses
         /\ entry.operation.responses[400].schema # "OkResponse"
    /\ pc = "done"
    /\ result.response.class = "OkResponse"
    /\ outcome.kind = "json"
    /\ outcome.code = 400

(***************************************************************************)
(* Properties of the wrapping of view functions.                           *)
(***************************************************************************)
\* C29: every operation wrapper wraps the handler the application
\* registered, never a function apistrap has wrapped already, also when
\* several URL rules or methods lead to one endpoint; the view function of
\* the endpoint is then one wrapper around the handler, so that a request
\* passes enforcement, body loading and post-processing once.
C29_HandlersWrappedOnce ==
    Built =>
        /\ \A i \in DOMAIN operations.list : operations.list[i].wrapped_function = 0
        /\ view_functions.view = 1

\* the part of C29 that holds: with one URL rule, whatever its methods, every
\* wrapper is built around the handler and one wrapper is installed
HandlersWrappedOncePerRule ==
    Built /\ Len(rules) = 1 =>
        /\ \A i \in DOMAIN operations.list : operations.list[i].wrapped_function = 0
        /\ view_functions.view = 1

\* two rules lead to the endpoint: the wrapper of the second rule is built
\* around the wrapper of the first, and a request is being served by the
\* view function that consists of both
HandlerWrappedTwice ==
    /\ Built
    /\ Len(rules) = 2
    /\ Len(operations.list) = 2
    /\ operations.list[2].wrapped_function = 1
    /\ view_functions.view = 2
    /\ pc = "call"

\* one rule with the methods GET and POST: two wrappers around the handler
TwoMethodsWrapped ==
    /\ Built
    /\ Len(rules) = 1
    /\ Len(operations.list) = 2
    /\ operations.list[1].method = "GET"
    /\ operations.list[2].method = "POST"

(***************************************************************************)
(* Properties of the schema conversion.                                    *)
(***************************************************************************)
\* the models the fields of the given models hold
FieldsHeldBy(models) ==
    UNION {{fields_of(model)[i].model_class : i \in DOMAIN fields_of(model)} : model \in models}
        \ {NoneVal}

RECURSIVE ReachableFrom(_)
ReachableFrom(models) ==
    IF FieldsHeldBy(models) \subseteq models
    THEN models
    ELSE ReachableFrom(models \cup FieldsHeldBy(models))

\* C30: the conversion of a model returns for every model, also one that
\* holds itself or lies on a cycle of models, and has then registered each
\* model reachable from it, once.
C30_ConversionTerminates ==
    /\ conversion.status # "RecursionError"
    /\ conversion.status = "returned" =>
           ReachableFrom({conversion.root}) \subseteq DOMAIN components.schemas

\* the part of C30 that holds: a model from which no model is reachable twice
\* along a chain of fields is converted, and the models reachable from it are
\* registered when the conversion returns
AcyclicConversionTerminates ==
    conversion.root \in {"Leaf", "Parent", "Grand"} =>
        /\ conversion.status \in {"running", "returned"}
        /\ Len(conversion.stack) <= 3
        /\ conversion.status = "returned" =>
               ReachableFrom({conversion.root}) \subseteq DOMAIN components.schemas

\* the conversion of a model that holds itself has ended with a
\* RecursionError and has registered nothing
SelfReferenceOverflows ==
    /\ conversion.root = "Node"
    /\ conversion.status = "RecursionError"
    /\ "Node" \notin DOMAIN components.schemas

\* the conversion of Grand has returned: Grand, Parent and Leaf are registered
NestedModelsRegistered ==
    /\ conversion.root = "Grand"
    /\ conversion.status = "returned"
    /\ DOMAIN components.schemas = {"Grand", "Parent", "Leaf"}

====
